---- MODULE Spec2Model ----
(***************************************************************************)
(* Net-worth aggregation and session synchronisation engine                *)
(* (NetWorthProvider: loadData, checkUserChange, resetNetWorth, the update *)
(* entry points), the AuthProvider's session writes, and the record        *)
(* providers it reads from.                                                *)
(*                                                                         *)
(* JavaScript runs every handler to completion, so one action is one       *)
(* handler: the synchronous part of loadData up to `await Promise.all`,    *)
(* the settling of provider requests, the part of loadData after the       *)
(* await, one poll tick of checkUserChange, one effect re-run.             *)
(***************************************************************************)
EXTENDS Integers, Sequences, FiniteSets, TLC

\* ------------------------------------------------------------------ bounds
\* Aggregation runs (calls of loadData that reach the fetch fan-out) in one behaviour.
MaxRuns == 2
\* Records in the provider list that SpecAgg draws freely.
MaxItems == 2

\* ------------------------------------------------------------ JS values
\* A JavaScript number: an integer or NaN.
N(v) == [nan |-> FALSE, v |-> v]
NaN == [nan |-> TRUE, v |-> 0]

\* A raw JSON field of a provider record: a number (or numeric string), a
\* missing field (undefined / null), or text that is not a number.
Raw(v) == [t |-> "num", v |-> v]
Missing == [t |-> "missing", v |-> 0]
Garbage == [t |-> "garbage", v |-> 0]

\* parseFloat: the number, or NaN for anything that is not one.
parseFloat(x) == IF x.t = "num" THEN N(x.v) ELSE NaN

\* Truthiness of a raw field (item.area ? ... : 0): undefined, null and 0 are falsy.
RawTruthy(x) == x.t = "garbage" \/ (x.t = "num" /\ x.v # 0)

\* Truthiness of a number: NaN and 0 are falsy.
Truthy(a) == ~a.nan /\ a.v # 0

\* a || b on numbers.
JsOr(a, b) == IF Truthy(a) THEN a ELSE b

\* a + b, a - b, a * b on numbers: NaN propagates.
Add(a, b) == IF a.nan \/ b.nan THEN NaN ELSE N(a.v + b.v)
Sub(a, b) == IF a.nan \/ b.nan THEN NaN ELSE N(a.v - b.v)
Mul(a, b) == IF a.nan \/ b.nan THEN NaN ELSE N(a.v * b.v)

\* Array.prototype.reduce((sum, x) => sum + x, 0) over the summands, left to right.
RECURSIVE SumSeq(_)
SumSeq(s) ==
    IF Len(s) = 0 THEN N(0)
    ELSE LET n == Len(s) IN Add(SumSeq(SubSeq(s, 1, n - 1)), s[n])

\* ------------------------------------------------------------ normalizers
Providers ==
    {"gold", "stocks", "property", "bankAccounts", "loans", "bonds", "mutualFunds", "creditCards"}

NormGold(item) ==
    [id |-> item.id,
     grams |-> parseFloat(item.weightGrams),
     pricePerGram |-> parseFloat(item.purchasePrice),
     totalValue |-> parseFloat(item.currentValue)]

NormStock(item) ==
    [id |-> item.id,
     units |-> parseFloat(item.quantity),
     unitPrice |-> parseFloat(item.currentPrice),
     totalValue |-> Mul(parseFloat(item.quantity), parseFloat(item.currentPrice))]

NormProperty(item) ==
    [id |-> item.id,
     purchasePrice |-> parseFloat(item.purchasePrice),
     currentValue |-> parseFloat(item.currentValue),
     area |-> IF RawTruthy(item.area) THEN parseFloat(item.area) ELSE N(0)]

NormLoan(item) ==
    [id |-> item.id,
     originalAmount |-> parseFloat(item.principal),
     outstandingBalance |-> parseFloat(item.outstanding),
     emiAmount |-> parseFloat(item.emiAmount),
     interestRate |-> parseFloat(item.interestRate)]

NormBond(item) ==
    [id |-> item.id,
     faceValue |-> parseFloat(item.faceValue),
     currentValue |-> parseFloat(item.currentValue),
     interestRate |-> parseFloat(item.interestRate)]

NormMutualFund(item) ==
    [id |-> item.id,
     units |-> parseFloat(item.units),
     avgNav |-> parseFloat(item.avgNav),
     currentNav |-> parseFloat(item.currentNav),
     currentValue |-> parseFloat(item.currentValue)]

\* { ...item, balance: parseFloat(item.balance) || 0 }
NormBank(item) ==
    [id |-> item.id,
     accountType |-> item.accountType,
     balance |-> JsOr(parseFloat(item.balance), N(0))]

NormCard(item) ==
    [id |-> item.id,
     creditLimit |-> parseFloat(item.creditLimit),
     usedAmount |-> parseFloat(item.usedAmount)]

\* Mutant of IsBankAccount: keeps only the accounts typed 'Savings'.
IsSavingsAccount(a) == a.accountType = "Savings"

\* The account-type discriminator of the bank/wallet partition.
IsWallet(a) == a.accountType = "Wallet"
IsBankAccount(a) == a.accountType # "Wallet"

\* --------------------------------------------------------- value rules
\* Mutant of GoldValue: the summand without the || 0.
GoldValueRaw(item) == item.totalValue

\* Mutant of BondValue: the summand without the face value.
BondValueNoFallback(item) == JsOr(item.currentValue, N(0))

\* Mutant of PropertyValue: the purchase price in place of the current value.
PropertyPurchaseValue(item) == JsOr(item.purchasePrice, N(0))

\* The summand of each reduce: parseFloat of a number is the number.
GoldValue(item) == JsOr(item.totalValue, N(0))
BondValue(item) == JsOr(JsOr(item.currentValue, item.faceValue), N(0))
StockValue(item) == JsOr(item.totalValue, N(0))
PropertyValue(item) == JsOr(item.currentValue, N(0))
MutualFundValue(item) == JsOr(item.currentValue, N(0))
BalanceValue(item) == JsOr(item.balance, N(0))
LoanValue(item) == JsOr(item.outstandingBalance, N(0))
CardValue(item) == JsOr(item.usedAmount, N(0))

\* ------------------------------------------------------------- snapshot
\* Mutant of TotalAssets: the cash total is left out of the sum.
TotalAssetsNoCash(goldTotal, bondsTotal, stocksTotal, propertyTotal, mutualFundsTotal, cashTotal) ==
    Add(Add(Add(Add(goldTotal, bondsTotal), stocksTotal), propertyTotal), mutualFundsTotal)

\* totalAssets, totalLiabilities and netWorth of the bucket totals.
TotalAssets(goldTotal, bondsTotal, stocksTotal, propertyTotal, mutualFundsTotal, cashTotal) ==
    Add(Add(Add(Add(Add(goldTotal, bondsTotal), stocksTotal), propertyTotal), mutualFundsTotal),
        cashTotal)

TotalLiabilities(loansTotal, cardsTotal) == Add(loansTotal, cardsTotal)

NetWorth(totalAssets, totalLiabilities) == Sub(totalAssets, totalLiabilities)

CashTotal(bankTotal, walletTotal) == Add(bankTotal, walletTotal)

\* The object handed to setData; lastUpdated (a wall-clock stamp) is left out.
MakeSnapshot(gold, bonds, stocks, property, mutualFunds, bankAccounts, wallets, loans, cards) ==
    LET goldTotal == SumSeq([i \in DOMAIN gold |-> GoldValue(gold[i])])
        bondsTotal == SumSeq([i \in DOMAIN bonds |-> BondValue(bonds[i])])
        stocksTotal == SumSeq([i \in DOMAIN stocks |-> StockValue(stocks[i])])
        propertyTotal == SumSeq([i \in DOMAIN property |-> PropertyValue(property[i])])
        mutualFundsTotal == SumSeq([i \in DOMAIN mutualFunds |-> MutualFundValue(mutualFunds[i])])
        bankTotal == SumSeq([i \in DOMAIN bankAccounts |-> BalanceValue(bankAccounts[i])])
        walletTotal == SumSeq([i \in DOMAIN wallets |-> BalanceValue(wallets[i])])
        cashTotal == CashTotal(bankTotal, walletTotal)
        loansTotal == SumSeq([i \in DOMAIN loans |-> LoanValue(loans[i])])
        cardsTotal == SumSeq([i \in DOMAIN cards |-> CardValue(cards[i])])
        totalAssets ==
            TotalAssets(goldTotal, bondsTotal, stocksTotal, propertyTotal, mutualFundsTotal,
                        cashTotal)
        totalLiabilities == TotalLiabilities(loansTotal, cardsTotal)
    IN  [gold |-> [items |-> gold, totalValue |-> goldTotal],
         bonds |-> [items |-> bonds, totalValue |-> bondsTotal],
         stocks |-> [items |-> stocks, totalValue |-> stocksTotal],
         property |-> [items |-> property, totalValue |-> propertyTotal],
         mutualFunds |-> [items |-> mutualFunds, totalValue |-> mutualFundsTotal],
         cash |-> [bankAccounts |-> bankAccounts, wallets |-> wallets,
                   totalBank |-> bankTotal, totalWallet |-> walletTotal,
                   totalCash |-> cashTotal],
         loans |-> [items |-> loans, totalValue |-> loansTotal],
         creditCards |-> [items |-> cards, totalValue |-> cardsTotal],
         totalAssets |-> totalAssets,
         totalLiabilities |-> totalLiabilities,
         netWorth |-> NetWorth(totalAssets, totalLiabilities)]

\* The literal of useState, of the reset before loading and of resetNetWorth.
ZeroSnapshot ==
    [gold |-> [items |-> <<>>, totalValue |-> N(0)],
     bonds |-> [items |-> <<>>, totalValue |-> N(0)],
     stocks |-> [items |-> <<>>, totalValue |-> N(0)],
     property |-> [items |-> <<>>, totalValue |-> N(0)],
     mutualFunds |-> [items |-> <<>>, totalValue |-> N(0)],
     cash |-> [bankAccounts |-> <<>>, wallets |-> <<>>,
               totalBank |-> N(0), totalWallet |-> N(0), totalCash |-> N(0)],
     loans |-> [items |-> <<>>, totalValue |-> N(0)],
     creditCards |-> [items |-> <<>>, totalValue |-> N(0)],
     totalAssets |-> N(0),
     totalLiabilities |-> N(0),
     netWorth |-> N(0)]

\* loadData after the await: normalize the eight responses, partition the
\* bank accounts, reduce, compose.  resp[p] is the record list of provider p.
Compose(resp) ==
    LET allBankRes == [i \in DOMAIN resp["bankAccounts"] |-> NormBank(resp["bankAccounts"][i])]
    IN  MakeSnapshot([i \in DOMAIN resp["gold"] |-> NormGold(resp["gold"][i])],
                     [i \in DOMAIN resp["bonds"] |-> NormBond(resp["bonds"][i])],
                     [i \in DOMAIN resp["stocks"] |-> NormStock(resp["stocks"][i])],
                     [i \in DOMAIN resp["property"] |-> NormProperty(resp["property"][i])],
                     [i \in DOMAIN resp["mutualFunds"] |-> NormMutualFund(resp["mutualFunds"][i])],
                     SelectSeq(allBankRes, IsBankAccount),
                     SelectSeq(allBankRes, IsWallet),
                     [i \in DOMAIN resp["loans"] |-> NormLoan(resp["loans"][i])],
                     [i \in DOMAIN resp["creditCards"] |-> NormCard(resp["creditCards"][i])])

\* ---------------------------------------------------------------- state
Users == {"A", "B"}
None == "none"
\* A 'user' entry that JSON.parse cannot read.
Bad == "bad"

RunIds == 1..MaxRuns

VARIABLES
    token,          \* localStorage 'token': present or not
    accessToken,    \* localStorage 'accessToken': the user it was issued to, or None
    savedUser,      \* localStorage 'user': the id in the stored JSON, None, or Bad
    activeGoal,     \* localStorage 'activeGoal_<id>', per user
    isLoading,      \* useState(true)
    currentUserId,  \* useState(null)
    data,           \* useState(zero snapshot)
    runs,           \* the calls of loadData that are awaiting Promise.all
    started,        \* how many such calls there have been
    mounted,        \* the provider's effects have run
    monitorUserId,  \* the currentUserId captured by the armed checkUserChange
    backend,        \* the records each provider holds for each user
    shown,          \* history: which run wrote the visible snapshot, for whom
    polled,         \* history: a poll tick has run since the session store last changed
    storageFull,    \* localStorage.setItem throws (quota exceeded)
    payload,        \* what each provider puts in the data field of its response
    refreshToken,   \* localStorage 'refreshToken': the user it was issued to, or None
    timers,         \* how many setInterval timers of checkUserChange are active
    tornDown,       \* the provider has been unmounted
    lastCommit,     \* history: the most recent populated commit and the goal record it left
    lastCall,       \* history: the path the step just taken followed through loadData
    db,             \* the backend database: the rows of every table AdminService touches
    adminPc,        \* the AdminService call in progress and the statement it is at
    importFile,     \* the data argument of the importData call in progress
    adminResult,    \* what the last AdminService call returned or threw
    foreignKeys,    \* whether the database rejects a row whose userId names no user
    crud,           \* the rows of the expense and stockAsset tables the CRUD services see
    crudPending,    \* update and delete calls between their findOne and their write
    crudNextId,     \* the id the next created row gets
    crudResult,     \* history: what the last finished CRUD call returned or threw
    currency,           \* CurrencyProvider: the code of the active currency
    currencyUserId,     \* CurrencyProvider: its currentUserId state
    currencyPollId,     \* the currentUserId the armed checkUserChange closure holds
    currencyMounted,    \* CurrencyProvider is mounted and its interval armed
    preferredCurrency   \* localStorage: preferredCurrency_<id> of each user

sessionVars == <<token, accessToken, savedUser>>
storeVars == <<isLoading, currentUserId, data, shown>>
runVars == <<runs, started>>
\* What the engine reads and never writes, and the lifetime of the provider.
adminVars == <<db, adminPc, importFile, adminResult, foreignKeys>>
crudVars == <<crud, crudPending, crudNextId, crudResult>>
serverVars == <<adminVars, crudVars>>
currencyVars ==
    <<currency, currencyUserId, currencyPollId, currencyMounted, preferredCurrency>>
envVars == <<backend, storageFull, payload, refreshToken, serverVars, currencyVars>>
lifeVars == <<mounted, timers, tornDown>>
\* The state of the browser, which AdminService never touches.
clientVars ==
    <<sessionVars, activeGoal, storeVars, runVars, lifeVars, monitorUserId, backend,
      storageFull, payload, refreshToken, polled, lastCommit, lastCall, currencyVars>>
\* Everything but the state of CurrencyProvider and the session entries.
engineVars ==
    <<token, activeGoal, storeVars, runVars, lifeVars, monitorUserId, backend, storageFull,
      payload, refreshToken, polled, lastCommit, lastCall, serverVars>>
vars ==
    <<token, accessToken, savedUser, activeGoal, isLoading, currentUserId, data, runs,
      started, mounted, monitorUserId, backend, shown, polled, storageFull, payload,
      refreshToken, timers, tornDown, lastCommit, lastCall, db, adminPc, importFile,
      adminResult, foreignKeys, crud, crudPending, crudNextId, crudResult, currency,
      currencyUserId, currencyPollId, currencyMounted, preferredCurrency>>

\* One element of the array given to Promise.all.
PendingRes == [st |-> "pending", data |-> <<>>]
Fulfilled(records) == [st |-> "ok", data |-> records]
Rejected == [st |-> "rejected", data |-> <<>>]

\* No request of the run has been issued a second time.
NoRetry == [p \in Providers |-> None]

\* retry[p] is the access token the HTTP client re-issued request p with.
IdleRun ==
    [status |-> "idle", userId |-> None, reqUser |-> None,
     res |-> [p \in Providers |-> PendingRes], failed |-> {},
     retry |-> NoRetry]
DoneRun == [IdleRun EXCEPT !.status = "done"]

\* localStorage.getItem('activeGoal_<id>'): null, or the JSON text of a goal;
\* rest stands for the fields of the goal other than currentNetWorth.
NoGoal == [st |-> "none", currentNetWorth |-> Missing, rest |-> "none"]
Goal(n) == [st |-> "ok", currentNetWorth |-> n, rest |-> "fields"]
\* A stored goal text that JSON.parse cannot read.
BadGoal == [st |-> "bad", currentNetWorth |-> Missing, rest |-> "text"]

NotShown == [run |-> 0, user |-> None, req |-> None, failed |-> {}]

\* No run has committed yet.
NoCommit ==
    [user |-> None, req |-> None, failed |-> {}, data |-> ZeroSnapshot, goal |-> NoGoal]

\* JSON.stringify of a number: NaN is written as null.
JsonOfNumber(n) == IF n.nan THEN Missing ELSE Raw(n.v)

\* -------------------------------------------------------------- providers
\* financialDataApi.<category>.getAll(): the request carries the access token
\* (request interceptor); the provider answers with that user's records, or
\* fails (transport error, non-success response, no token).  A response may
\* carry something else than a list in its data field: nothing (null), or an
\* object.
GetAll(reqUser, p, fails) ==
    IF fails \/ reqUser \notin Users THEN Rejected
    ELSE IF payload[p] = "list" THEN Fulfilled(backend[reqUser][p])
    ELSE [st |-> payload[p], data |-> <<>>]

\* Mutant of FetchCatch: the request has no catch of its own.
FetchNoCatch(r) == r

\* .catch(() => ({ data: [] })) on each request.
FetchCatch(r) == IF r.st = "rejected" THEN Fulfilled(<<>>) ELSE r

PendingOf(r) == {p \in Providers : runs[r].res[p].st = "pending"}

\* The Authorization header request p of run r carries: the access token
\* read when the request was issued, or the refreshed one after a retry.
RequestUser(r, p) == IF runs[r].retry[p] # None THEN runs[r].retry[p] ELSE runs[r].reqUser

\* An access token the API does not accept (any more).
Expired == "expired"

\* The API answers request p of run r with 401: no token, or one it rejects.
Unauthorized(r, p) == RequestUser(r, p) \notin Users

\* Mutant of Retryable: the interceptor does not look at _retry.
RetryableAgain(r, p) ==
    /\ Unauthorized(r, p)
    /\ refreshToken # None

\* apiClient's response interceptor takes over: the response is a 401, the
\* request has not been retried and a refresh token is stored.
Retryable(r, p) ==
    /\ Unauthorized(r, p)
    /\ runs[r].retry[p] = None
    /\ refreshToken # None

\* The requests in S of run r settle; those in F fail (without a response).
FetchSettle(r, S, F) ==
    /\ runs[r].status = "fetching"
    /\ S # {}
    /\ S \subseteq PendingOf(r)
    /\ F \subseteq S
    /\ \A p \in S \ F : ~Retryable(r, p)
    /\ runs' = [runs EXCEPT
                  ![r].res = [p \in Providers |->
                                IF p \in S
                                THEN FetchCatch(GetAll(RequestUser(r, p), p, p \in F))
                                ELSE @[p]],
                  ![r].failed = @ \cup {p \in S : p \in F \/ Unauthorized(r, p)}]
    /\ lastCall' = "none"
    /\ UNCHANGED <<sessionVars, activeGoal, storeVars, started, lifeVars, monitorUserId, envVars,
                   polled, lastCommit>>

\* apiClient's response interceptor on a 401: the refresh succeeds, the new
\* access token t is stored and the original request is issued again with it.
RefreshAndRetry(r, p, t) ==
    /\ runs[r].status = "fetching"
    /\ p \in PendingOf(r)
    /\ Retryable(r, p)
    /\ t \in {refreshToken, Expired}
    /\ accessToken' = t
    /\ runs' = [runs EXCEPT ![r].retry[p] = t]
    /\ lastCall' = "none"
    /\ UNCHANGED <<token, savedUser, activeGoal, storeVars, started, lifeVars, monitorUserId,
                   envVars, polled, lastCommit>>

\* apiClient's response interceptor on a 401: the refresh request fails, both
\* tokens are removed, the page is sent to /login (the provider goes away
\* with the page) and the request is rejected.
RefreshFails(r, p) ==
    /\ runs[r].status = "fetching"
    /\ p \in PendingOf(r)
    /\ Retryable(r, p)
    /\ accessToken' = None
    /\ refreshToken' = None
    /\ mounted' = FALSE
    /\ tornDown' = TRUE
    /\ timers' = 0
    /\ runs' = [runs EXCEPT ![r].res[p] = FetchCatch(Rejected),
                            ![r].failed = @ \cup {p}]
    /\ lastCall' = "none"
    /\ UNCHANGED <<token, savedUser, activeGoal, storeVars, started, monitorUserId, backend,
                   storageFull, payload, serverVars, currencyVars, polled, lastCommit>>

\* ---------------------------------------------------------------- loadData
\* Mutant of JoinReady: resumes as soon as one element has settled.
JoinAnySettled(res) == \E p \in Providers : res[p].st # "pending"

\* await Promise.all(...): resumes when every element has settled.
JoinReady(res) == \A p \in Providers : res[p].st # "pending"
\* ... or throws as soon as one element is rejected.
JoinRejected(res) == \E p \in Providers : res[p].st = "rejected"

\* (xRes.data || []) of every response: a null data field reads as no record.
RespData(res) == [p \in Providers |-> IF res[p].st = "ok" THEN res[p].data ELSE <<>>]

\* (xRes.data || []).map(...) throws a TypeError when data is not an array.
MapThrows(res) == \E p \in Providers : res[p].st = "object"

\* Mutant of LoadData: the fetches are issued without the reset before loading.
LoadDataNoReset ==
    IF ~token \/ savedUser = None \/ savedUser = Bad
    THEN /\ isLoading' = FALSE
         /\ lastCall' = IF savedUser = Bad /\ token THEN "parseError" ELSE "noIdentity"
         /\ UNCHANGED <<currentUserId, data, shown, runVars>>
    ELSE /\ started < MaxRuns
         /\ isLoading' = TRUE
         /\ lastCall' = "fetch"
         /\ currentUserId' = savedUser
         /\ started' = started + 1
         /\ runs' = [runs EXCEPT ![started + 1] =
                        [status |-> "fetching", userId |-> savedUser,
                         reqUser |-> accessToken,
                         res |-> [p \in Providers |-> PendingRes], failed |-> {},
                         retry |-> NoRetry]]
         /\ UNCHANGED <<data, shown>>

\* Mutant of LoadData: the return without an identity writes the zero snapshot.
LoadDataCommitZero ==
    IF ~token \/ savedUser = None \/ savedUser = Bad
    THEN /\ isLoading' = FALSE
         /\ lastCall' = IF savedUser = Bad /\ token THEN "parseError" ELSE "noIdentity"
         /\ data' = ZeroSnapshot
         /\ shown' = NotShown
         /\ UNCHANGED <<currentUserId, runVars>>
    ELSE /\ started < MaxRuns
         /\ isLoading' = TRUE
         /\ lastCall' = "fetch"
         /\ data' = ZeroSnapshot
         /\ shown' = NotShown
         /\ currentUserId' = savedUser
         /\ started' = started + 1
         /\ runs' = [runs EXCEPT ![started + 1] =
                        [status |-> "fetching", userId |-> savedUser,
                         reqUser |-> accessToken,
                         res |-> [p \in Providers |-> PendingRes], failed |-> {},
                         retry |-> NoRetry]]

\* loadData up to the await: the authentication check, the parse of the
\* stored user, the reset before loading, the fan-out of the eight requests.
LoadData ==
    IF ~token \/ savedUser = None
    THEN /\ isLoading' = FALSE
         /\ lastCall' = "noIdentity"
         /\ UNCHANGED <<currentUserId, data, shown, runVars>>
    ELSE IF savedUser = Bad
    THEN /\ isLoading' = FALSE
         /\ lastCall' = "parseError"
         /\ UNCHANGED <<currentUserId, data, shown, runVars>>
    ELSE /\ started < MaxRuns
         /\ isLoading' = TRUE
         /\ lastCall' = "fetch"
         /\ data' = ZeroSnapshot
         /\ shown' = NotShown
         /\ currentUserId' = savedUser
         /\ started' = started + 1
         /\ runs' = [runs EXCEPT ![started + 1] =
                        [status |-> "fetching", userId |-> savedUser,
                         reqUser |-> accessToken,
                         res |-> [p \in Providers |-> PendingRes], failed |-> {},
                         retry |-> NoRetry]]

\* Mutant of GoalSync: the net worth is added to the stored figure.
GoalSyncAccumulate(goals, userId, netWorth) ==
    IF userId # None /\ goals[userId].st = "ok"
    THEN [goals EXCEPT ![userId].currentNetWorth = JsonOfNumber(Add(parseFloat(@), netWorth))]
    ELSE goals

\* Mutant of GoalSync: a goal record is written whether or not one is stored.
GoalSyncCreate(goals, userId, netWorth) ==
    IF userId # None
    THEN [goals EXCEPT ![userId] = [st |-> "ok", currentNetWorth |-> JsonOfNumber(netWorth),
                                    rest |-> @.rest]]
    ELSE goals

\* Mutant of GoalSync: the key is built from the user stored in the session
\* when the goal is written, not from the id the run parsed at its start.
GoalSyncSessionKey(goals, userId, netWorth) ==
    IF savedUser \in DOMAIN goals /\ goals[savedUser].st = "ok"
    THEN [goals EXCEPT ![savedUser].currentNetWorth = JsonOfNumber(netWorth)]
    ELSE goals

\* The try block of the goal update throws: JSON.parse rejects the stored
\* text, or localStorage.setItem fails.
GoalUpdateThrows(goals, userId) ==
    /\ userId # None
    /\ goals[userId].st # "none"
    /\ goals[userId].st = "bad" \/ storageFull

\* The goal update after the commit, with the user-scoped key; its own catch
\* logs what the try block throws.
GoalSync(goals, userId, netWorth) ==
    IF userId # None /\ goals[userId].st # "none" /\ ~GoalUpdateThrows(goals, userId)
    THEN [goals EXCEPT ![userId].currentNetWorth = JsonOfNumber(netWorth)]
    ELSE goals

\* Mutant of LoadDataResume: the goal is updated before setData and without a
\* catch of its own, so a failing goal update ends in the outer catch.
LoadDataResumeGoalFirst(r) ==
    /\ runs[r].status = "fetching"
    /\ JoinReady(runs[r].res) \/ JoinRejected(runs[r].res)
    /\ IF \/ JoinRejected(runs[r].res)
          \/ MapThrows(runs[r].res)
          \/ GoalUpdateThrows(activeGoal, runs[r].userId)
       THEN UNCHANGED <<data, shown, activeGoal, lastCommit>>
       ELSE LET snap == Compose(RespData(runs[r].res))
                goals == GoalSync(activeGoal, runs[r].userId, snap.netWorth)
            IN  /\ data' = snap
                /\ shown' = [run |-> r, user |-> runs[r].userId,
                             req |-> runs[r].reqUser, failed |-> runs[r].failed]
                /\ activeGoal' = goals
                /\ lastCommit' = [user |-> runs[r].userId, req |-> runs[r].reqUser,
                                  failed |-> runs[r].failed, data |-> snap,
                                  goal |-> goals[runs[r].userId]]
    /\ isLoading' = FALSE
    /\ runs' = [runs EXCEPT ![r] = DoneRun]
    /\ lastCall' = "none"
    /\ UNCHANGED <<sessionVars, currentUserId, started, lifeVars, monitorUserId, envVars, polled>>

\* Mutant of LoadDataResume: no finally block, setIsLoading(false) is the
\* last statement of the try block.
LoadDataResumeNoFinally(r) ==
    /\ runs[r].status = "fetching"
    /\ JoinReady(runs[r].res) \/ JoinRejected(runs[r].res)
    /\ IF JoinRejected(runs[r].res) \/ MapThrows(runs[r].res)
       THEN UNCHANGED <<data, shown, activeGoal, lastCommit, isLoading>>
       ELSE LET snap == Compose(RespData(runs[r].res))
                goals == GoalSync(activeGoal, runs[r].userId, snap.netWorth)
            IN  /\ data' = snap
                /\ shown' = [run |-> r, user |-> runs[r].userId,
                             req |-> runs[r].reqUser, failed |-> runs[r].failed]
                /\ activeGoal' = goals
                /\ lastCommit' = [user |-> runs[r].userId, req |-> runs[r].reqUser,
                                  failed |-> runs[r].failed, data |-> snap,
                                  goal |-> goals[runs[r].userId]]
                /\ isLoading' = FALSE
    /\ runs' = [runs EXCEPT ![r] = DoneRun]
    /\ lastCall' = "none"
    /\ UNCHANGED <<sessionVars, currentUserId, started, lifeVars, monitorUserId, envVars, polled>>

\* Mutant of LoadDataResume: no catch block, what the try block throws
\* rejects the promise loadData returned.
LoadDataResumeNoCatch(r) ==
    /\ runs[r].status = "fetching"
    /\ JoinReady(runs[r].res) \/ JoinRejected(runs[r].res)
    /\ IF JoinRejected(runs[r].res) \/ MapThrows(runs[r].res)
       THEN /\ runs' = [runs EXCEPT ![r] = [DoneRun EXCEPT !.status = "rejected"]]
            /\ UNCHANGED <<data, shown, activeGoal, lastCommit>>
       ELSE LET snap == Compose(RespData(runs[r].res))
                goals == GoalSync(activeGoal, runs[r].userId, snap.netWorth)
            IN  /\ data' = snap
                /\ shown' = [run |-> r, user |-> runs[r].userId,
                             req |-> runs[r].reqUser, failed |-> runs[r].failed]
                /\ activeGoal' = goals
                /\ lastCommit' = [user |-> runs[r].userId, req |-> runs[r].reqUser,
                                  failed |-> runs[r].failed, data |-> snap,
                                  goal |-> goals[runs[r].userId]]
                /\ runs' = [runs EXCEPT ![r] = DoneRun]
    /\ isLoading' = FALSE
    /\ lastCall' = "none"
    /\ UNCHANGED <<sessionVars, currentUserId, started, lifeVars, monitorUserId, envVars, polled>>

\* loadData after the await: normalize, reduce, setData, goal update, and
\* the finally block; a rejected Promise.all or a throwing normalizer goes to
\* the catch block.
LoadDataResume(r) ==
    /\ runs[r].status = "fetching"
    /\ JoinReady(runs[r].res) \/ JoinRejected(runs[r].res)
    /\ IF JoinRejected(runs[r].res) \/ MapThrows(runs[r].res)
       THEN UNCHANGED <<data, shown, activeGoal, lastCommit>>
       ELSE LET snap == Compose(RespData(runs[r].res))
                goals == GoalSync(activeGoal, runs[r].userId, snap.netWorth)
            IN  /\ data' = snap
                /\ shown' = [run |-> r, user |-> runs[r].userId,
                             req |-> runs[r].reqUser, failed |-> runs[r].failed]
                /\ activeGoal' = goals
                /\ lastCommit' = [user |-> runs[r].userId, req |-> runs[r].reqUser,
                                  failed |-> runs[r].failed, data |-> snap,
                                  goal |-> goals[runs[r].userId]]
    /\ isLoading' = FALSE
    /\ runs' = [runs EXCEPT ![r] = DoneRun]
    /\ lastCall' = "none"
    /\ UNCHANGED <<sessionVars, currentUserId, started, lifeVars, monitorUserId, envVars, polled>>

\* resetNetWorth: setData(zero), setCurrentUserId(null).
ResetStore ==
    /\ data' = ZeroSnapshot
    /\ shown' = NotShown
    /\ currentUserId' = None
    /\ UNCHANGED <<isLoading, runVars>>

resetNetWorth ==
    /\ mounted
    /\ ResetStore
    /\ lastCall' = "none"
    /\ UNCHANGED <<sessionVars, activeGoal, lifeVars, monitorUserId, envVars, polled, lastCommit>>

\* Mutant of Cleanup: the interval is left running.
CleanupNothing(n) == n

\* return () => clearInterval(interval): the effect's own interval is cleared.
Cleanup(n) == n - 1

\* useEffect(() => { loadData(); }, []) and the first arming of the poll timer.
Mount ==
    /\ ~mounted
    /\ ~tornDown
    /\ mounted' = TRUE
    /\ timers' = timers + 1
    /\ UNCHANGED tornDown
    /\ monitorUserId' = currentUserId
    /\ LoadData
    /\ UNCHANGED <<sessionVars, activeGoal, envVars, polled, lastCommit>>

\* One tick of setInterval(checkUserChange, 500).
checkUserChange ==
    /\ timers > 0
    /\ IF savedUser # None /\ token
       THEN IF savedUser # Bad /\ savedUser # monitorUserId
            THEN LoadData
            ELSE UNCHANGED <<storeVars, runVars>> /\ lastCall' = "none"
       ELSE IF monitorUserId # None /\ ~token
            THEN ResetStore /\ lastCall' = "none"
            ELSE UNCHANGED <<storeVars, runVars>> /\ lastCall' = "none"
    /\ polled' = TRUE
    /\ UNCHANGED <<sessionVars, activeGoal, lifeVars, monitorUserId, envVars, lastCommit>>

\* useEffect(..., [currentUserId]) after a render with a new currentUserId:
\* the old interval is cleared and a new one armed with the new closure.
UseEffectRearm ==
    /\ mounted
    /\ monitorUserId # currentUserId
    /\ monitorUserId' = currentUserId
    /\ timers' = Cleanup(timers) + 1
    /\ lastCall' = "none"
    /\ UNCHANGED <<sessionVars, activeGoal, storeVars, runVars, mounted, tornDown, envVars,
                   polled, lastCommit>>

\* The provider unmounts: the cleanup of the interval effect runs.
Unmount ==
    /\ mounted
    /\ mounted' = FALSE
    /\ tornDown' = TRUE
    /\ timers' = Cleanup(timers)
    /\ lastCall' = "none"
    /\ UNCHANGED <<sessionVars, activeGoal, storeVars, runVars, monitorUserId, envVars, polled,
                   lastCommit>>

EntryPoints ==
    {"updateGold", "updateBonds", "updateStocks", "updateProperty", "updateMutualFunds",
     "updateCash", "updateLoans", "updateCreditCards"}

\* The provider whose category an entry point is named after.
ProviderOf(entry) ==
    CASE entry = "updateGold" -> "gold"
      [] entry = "updateBonds" -> "bonds"
      [] entry = "updateStocks" -> "stocks"
      [] entry = "updateProperty" -> "property"
      [] entry = "updateMutualFunds" -> "mutualFunds"
      [] entry = "updateCash" -> "bankAccounts"
      [] entry = "updateLoans" -> "loans"
      [] entry = "updateCreditCards" -> "creditCards"

\* The items arguments the callers pass: AssetItem lists.
NewItem(i) == [id |-> i, totalValue |-> N(1)]
ItemArgs == {<<>>, <<NewItem(8)>>, <<NewItem(8), NewItem(9)>>}

\* The store with the items of one category replaced.
WithItems(d, entry, items) ==
    IF entry = "updateCash"
    THEN [d EXCEPT !.cash.bankAccounts = items]
    ELSE [d EXCEPT ![ProviderOf(entry)].items = items]

\* Mutant of update: the entry point patches the store with its items.
updateDirect(entry, items) ==
    /\ mounted
    /\ entry \in EntryPoints
    /\ data' = WithItems(data, entry, items)
    /\ lastCall' = "none"
    /\ UNCHANGED <<isLoading, currentUserId, shown, runVars>>
    /\ UNCHANGED <<sessionVars, activeGoal, lifeVars, monitorUserId, envVars, polled, lastCommit>>

\* updateGold(items) .. updateCreditCards(items): await loadData().
update(entry, items) ==
    /\ mounted
    /\ entry \in EntryPoints
    /\ items \in ItemArgs
    /\ LoadData
    /\ UNCHANGED <<sessionVars, activeGoal, lifeVars, monitorUserId, envVars, polled, lastCommit>>

refreshNetWorth ==
    /\ mounted
    /\ LoadData
    /\ UNCHANGED <<sessionVars, activeGoal, lifeVars, monitorUserId, envVars, polled, lastCommit>>

\* ----------------------------------------------------------------- session
\* AuthProvider.login: setItem('accessToken'), setItem('user').
login(u) ==
    /\ accessToken' = u
    /\ savedUser' = u
    /\ polled' = FALSE
    /\ lastCall' = "none"
    /\ UNCHANGED <<token, activeGoal, storeVars, runVars, lifeVars, monitorUserId, envVars,
                   lastCommit>>

\* AuthProvider.logout: removeItem('accessToken'), removeItem('user').
logout ==
    /\ accessToken' = None
    /\ savedUser' = None
    /\ polled' = FALSE
    /\ lastCall' = "none"
    /\ UNCHANGED <<token, activeGoal, storeVars, runVars, lifeVars, monitorUserId, envVars,
                   lastCommit>>

\* The 'token' entry that loadData and checkUserChange read is written by
\* the authentication flow outside this engine.
SessionSetToken ==
    /\ ~token
    /\ token' = TRUE
    /\ polled' = FALSE
    /\ lastCall' = "none"
    /\ UNCHANGED <<accessToken, savedUser, activeGoal, storeVars, runVars, lifeVars,
                   monitorUserId, envVars, lastCommit>>

SessionRemoveToken ==
    /\ token
    /\ token' = FALSE
    /\ polled' = FALSE
    /\ lastCall' = "none"
    /\ UNCHANGED <<accessToken, savedUser, activeGoal, storeVars, runVars, lifeVars,
                   monitorUserId, envVars, lastCommit>>

\* The 'user' entry is rewritten with text that JSON.parse cannot read.
SessionCorruptUser ==
    /\ savedUser # Bad
    /\ savedUser' = Bad
    /\ polled' = FALSE
    /\ lastCall' = "none"
    /\ UNCHANGED <<token, accessToken, activeGoal, storeVars, runVars, lifeVars, monitorUserId,
                   envVars, lastCommit>>

\* ------------------------------------------------------------- AdminService
AdminEmail == "admin@fortstec.com"

\* The Prisma models AdminService works on.
Tables ==
    {"user", "auditLog", "netWorthSnapshot", "goal", "budget", "transaction", "expense",
     "bankAccount", "goldAsset", "stockAsset", "bondAsset", "mutualFundAsset", "property",
     "loan", "creditCard", "category", "expenseCategory"}

\* Mutant of ResetOrder: the categories are deleted before the transactions
\* and budgets.
ResetOrderCategoriesFirst ==
    <<"auditLog", "netWorthSnapshot", "goal", "category", "budget", "transaction", "expense",
      "bankAccount", "goldAsset", "stockAsset", "bondAsset", "mutualFundAsset", "property",
      "loan", "creditCard", "expenseCategory">>

\* resetDatabase: the deleteMany({}) statements in program order; the users
\* are deleted after them.
ResetOrder ==
    <<"auditLog", "netWorthSnapshot", "goal", "budget", "transaction", "expense",
      "bankAccount", "goldAsset", "stockAsset", "bondAsset", "mutualFundAsset", "property",
      "loan", "creditCard", "category", "expenseCategory">>

\* importData: the createMany statements in program order; the users are
\* created before them.
ImportOrder ==
    <<"expenseCategory", "category", "bankAccount", "goldAsset", "stockAsset", "bondAsset",
      "mutualFundAsset", "property", "loan", "creditCard", "transaction", "budget",
      "expense", "goal", "netWorthSnapshot", "auditLog">>

\* A field of the data argument: missing, or a list of rows.
Absent == [present |-> FALSE, rows |-> {}]
Present(rows) == [present |-> TRUE, rows |-> rows]

UserRow(i, e) == [id |-> i, email |-> e]
Row(i, u) == [id |-> i, userId |-> u]

AdminRow == UserRow("admin", AdminEmail)

IdlePc == [op |-> "idle", phase |-> "idle", step |-> 0]
NoResult == [st |-> "none", deleted |-> [t \in Tables |-> 0]]

\* The services with the guarded update and delete.
Services == {"expenses", "stockAssets"}

\* A row of a service's table; val stands for the fields a dto can set.
CrudRow(i, u, v) == [id |-> i, userId |-> u, val |-> v]

\* The rows the services start with: an expense of A and a stock asset of B.
Crud0 ==
    [svc \in Services |->
        IF svc = "expenses" THEN {CrudRow(1, "A", 0)} ELSE {CrudRow(2, "B", 0)}]

NoCrudResult ==
    [svc |-> None, op |-> None, id |-> 0, caller |-> None, st |-> "none", error |-> None,
     rows |-> {}]

\* No CRUD call has been made.
CrudIdle ==
    /\ crud = Crud0
    /\ crudPending = {}
    /\ crudNextId = 3
    /\ crudResult = NoCrudResult

\* No AdminService call has been made; only the admin user exists.
AdminIdle ==
    /\ db = [t \in Tables |-> IF t = "user" THEN {AdminRow} ELSE {}]
    /\ adminPc = IdlePc
    /\ importFile = [t \in Tables |-> Absent]
    /\ adminResult = NoResult
    /\ foreignKeys = TRUE

ServerIdle == AdminIdle /\ CrudIdle

\* prisma.user.findUnique({ where: { email: 'admin@fortstec.com' } })
FindAdmin(users) == {u \in users : u.email = AdminEmail}

\* Mutant of Counts: the users are counted without the filter on the admin's id.
CountsEveryUser(adminUser) == [t \in Tables |-> Cardinality(db[t])]

\* The counts resetDatabase reports: every row, and the users other than the admin.
Counts(adminUser) ==
    [t \in Tables |->
        IF t = "user" THEN Cardinality({u \in db["user"] : u.id # adminUser.id})
        ELSE Cardinality(db[t])]

\* A controller calls resetDatabase().
resetDatabase ==
    /\ adminPc = IdlePc
    /\ adminPc' = [op |-> "resetDatabase", phase |-> "reset", step |-> 0]
    /\ adminResult' = NoResult
    /\ UNCHANGED <<clientVars, crudVars, foreignKeys, db, importFile>>

\* A controller calls importData(data): resetDatabase() runs first.
importData(file) ==
    /\ adminPc = IdlePc
    /\ adminPc' = [op |-> "importData", phase |-> "reset", step |-> 0]
    /\ importFile' = file
    /\ adminResult' = NoResult
    /\ UNCHANGED <<clientVars, crudVars, foreignKeys, db>>

\* resetDatabase: the admin user is looked up, the call throws when there is
\* none, the rows are counted.
ResetFind ==
    /\ adminPc.phase = "reset"
    /\ adminPc.step = 0
    /\ IF FindAdmin(db["user"]) = {}
       THEN /\ adminPc' = IdlePc
            /\ adminResult' = [NoResult EXCEPT !.st = "error"]
       ELSE /\ adminPc' = [adminPc EXCEPT !.step = 1]
            /\ adminResult' =
                  [NoResult EXCEPT !.deleted = Counts(CHOOSE u \in FindAdmin(db["user"]) : TRUE)]
    /\ UNCHANGED <<clientVars, crudVars, foreignKeys, db, importFile>>

\* resetDatabase: one deleteMany({}) statement.
ResetDelete ==
    /\ adminPc.phase = "reset"
    /\ adminPc.step \in 1..Len(ResetOrder)
    /\ db' = [db EXCEPT ![ResetOrder[adminPc.step]] = {}]
    /\ adminPc' = [adminPc EXCEPT !.step = @ + 1]
    /\ UNCHANGED <<clientVars, crudVars, foreignKeys, importFile, adminResult>>

\* resetDatabase: user.deleteMany({ where: { id: { not: adminUser.id } } })
\* and the return; importData goes on with the import.
ResetDeleteUsers ==
    /\ adminPc.phase = "reset"
    /\ adminPc.step = Len(ResetOrder) + 1
    /\ db' = [db EXCEPT !["user"] = FindAdmin(db["user"])]
    /\ IF adminPc.op = "resetDatabase"
       THEN /\ adminPc' = IdlePc
            /\ adminResult' = [adminResult EXCEPT !.st = "ok"]
       ELSE /\ adminPc' = [adminPc EXCEPT !.phase = "import", !.step = 0]
            /\ UNCHANGED adminResult
    /\ UNCHANGED <<clientVars, crudVars, foreignKeys, importFile>>

\* (data.users || []).filter(u => !existingEmails.includes(u.email))
UsersToImport(file, existing) ==
    IF ~file["user"].present THEN {}
    ELSE {u \in file["user"].rows : u.email \notin {e.email : e \in existing}}

\* importData: the users that do not exist yet are created.
ImportUsers ==
    /\ adminPc.phase = "import"
    /\ adminPc.step = 0
    /\ db' = [db EXCEPT !["user"] = @ \cup UsersToImport(importFile, db["user"])]
    /\ adminPc' = [adminPc EXCEPT !.step = 1]
    /\ UNCHANGED <<clientVars, crudVars, foreignKeys, importFile, adminResult>>

\* The rows of a createMany whose userId is the id of no user.
Orphans(rows, users) == {row \in rows : row.userId \notin {u.id : u \in users}}

\* importData: one "if (data.x) createMany" statement, and the return after
\* the last one.  Where the database enforces the relation to the users, a
\* createMany with a row of an unknown user is rejected whole and importData
\* throws.
ImportCreate ==
    /\ adminPc.phase = "import"
    /\ adminPc.step \in 1..Len(ImportOrder)
    /\ LET t == ImportOrder[adminPc.step]
           rejected == /\ importFile[t].present
                       /\ foreignKeys
                       /\ Orphans(importFile[t].rows, db["user"]) # {}
       IN  IF rejected
           THEN /\ adminPc' = IdlePc
                /\ adminResult' = [adminResult EXCEPT !.st = "error"]
                /\ UNCHANGED db
           ELSE /\ db' = IF importFile[t].present
                          THEN [db EXCEPT ![t] = @ \cup importFile[t].rows]
                          ELSE db
                /\ IF adminPc.step = Len(ImportOrder)
                   THEN /\ adminPc' = IdlePc
                        /\ adminResult' = [adminResult EXCEPT !.st = "ok"]
                   ELSE /\ adminPc' = [adminPc EXCEPT !.step = @ + 1]
                        /\ UNCHANGED adminResult
    /\ UNCHANGED <<clientVars, crudVars, foreignKeys, importFile>>

\* --------------------------------------------------------- CurrencyProvider
\* CURRENCIES[0] and the codes of CURRENCIES the model uses.
DefaultCode == "AED"
KnownCodes == {"AED", "USD"}
\* What a preferredCurrency_<id> entry can hold: nothing, a code of
\* CURRENCIES, or a string that is no code of CURRENCIES.
SavedCodes == {None, "USD", "XXX"}

\* CURRENCIES.find(c => c.code === savedCurrencyCode), then the branch of
\* checkUserChange: the saved currency if it is found, CURRENCIES[0] if it is
\* not or if nothing is saved.
PreferenceOf(u) ==
    IF preferredCurrency[u] \in KnownCodes THEN preferredCurrency[u] ELSE DefaultCode

\* The mount effect: the same, but a saved code that is not found leaves the
\* currency as it is.
CurrencyMount ==
    /\ ~currencyMounted
    /\ currencyMounted' = TRUE
    /\ currencyPollId' = None
    /\ IF savedUser # None
       THEN /\ currencyUserId' = savedUser
            /\ currency' = IF preferredCurrency[savedUser] = None THEN DefaultCode
                           ELSE IF preferredCurrency[savedUser] \in KnownCodes
                                THEN preferredCurrency[savedUser]
                                ELSE currency
       ELSE /\ currencyUserId' = None
            /\ currency' = DefaultCode
    /\ UNCHANGED <<sessionVars, engineVars, preferredCurrency>>

\* The effect with deps [currentUserId] runs after the render that follows
\* setCurrentUserId: the interval is cleared and armed again with the new
\* closure.
CurrencyRearm ==
    /\ currencyMounted
    /\ currencyPollId # currencyUserId
    /\ currencyPollId' = currencyUserId
    /\ UNCHANGED <<sessionVars, engineVars, currency, currencyUserId, currencyMounted,
                   preferredCurrency>>

\* A tick of the interval: checkUserChange of CurrencyProvider, with the
\* currentUserId of the render that armed it.
CurrencyCheckUserChange ==
    /\ currencyMounted
    /\ IF savedUser # None
       THEN IF savedUser # currencyPollId
            THEN /\ currencyUserId' = savedUser
                 /\ currency' = PreferenceOf(savedUser)
            ELSE UNCHANGED <<currencyUserId, currency>>
       ELSE IF currencyPollId # None
            THEN /\ currencyUserId' = None
                 /\ currency' = DefaultCode
            ELSE UNCHANGED <<currencyUserId, currency>>
    /\ UNCHANGED <<sessionVars, engineVars, currencyPollId, currencyMounted, preferredCurrency>>

\* setCurrency of the latest render: its closure holds the currentUserId state.
setCurrency(code) ==
    /\ currencyMounted
    /\ currency' = code
    /\ preferredCurrency' =
          IF currencyUserId # None THEN [preferredCurrency EXCEPT ![currencyUserId] = code]
          ELSE preferredCurrency
    /\ UNCHANGED <<sessionVars, engineVars, currencyUserId, currencyPollId, currencyMounted>>

resetCurrency ==
    /\ currencyMounted
    /\ currency' = DefaultCode
    /\ currencyUserId' = None
    /\ UNCHANGED <<sessionVars, engineVars, currencyPollId, currencyMounted, preferredCurrency>>

\* ------------------------------------------------------------ CRUD services
\* ExpensesService throws NotFoundException, StockAssetsService a plain Error;
\* both say "... not found".
NotFoundError(svc) == IF svc = "expenses" THEN "NotFoundException" ELSE "Error"

\* prisma.update / prisma.delete on an id that has no row.
PrismaNotFound == "PrismaClientKnownRequestError"

\* Mutant of Found: findFirst({ where: { id } }), the userId is not part of
\* the filter.
FoundById(svc, id, userId) == {row \in crud[svc] : row.id = id}

\* findFirst({ where: { id, userId } })
Found(svc, id, userId) == {row \in crud[svc] : row.id = id /\ row.userId = userId}

CrudReturn(svc, op, id, userId, rows) ==
    [svc |-> svc, op |-> op, id |-> id, caller |-> userId, st |-> "ok", error |-> None,
     rows |-> rows]

CrudThrow(svc, op, id, userId, error) ==
    [svc |-> svc, op |-> op, id |-> id, caller |-> userId, st |-> "error", error |-> error,
     rows |-> {}]

\* How many update and delete calls are awaiting their findOne at a time.
MaxPending == 2
\* The ids callers name: the rows that exist and one that may not.
CrudIds == 1..3
\* The last id create hands out.
MaxId == 3
DtoVals == {1}

findAll(svc, userId) ==
    /\ crudResult' = CrudReturn(svc, "findAll", 0, userId,
                                {row \in crud[svc] : row.userId = userId})
    /\ UNCHANGED <<clientVars, adminVars, crud, crudPending, crudNextId>>

findOne(svc, id, userId) ==
    /\ crudResult' = CrudReturn(svc, "findOne", id, userId, Found(svc, id, userId))
    /\ UNCHANGED <<clientVars, adminVars, crud, crudPending, crudNextId>>

\* create({ data: { userId, ...dto } }); the dto carries the value fields.
create(svc, userId, v) ==
    /\ crudNextId <= MaxId
    /\ crud' = [crud EXCEPT ![svc] = @ \cup {CrudRow(crudNextId, userId, v)}]
    /\ crudNextId' = crudNextId + 1
    /\ crudResult' = CrudReturn(svc, "create", crudNextId, userId,
                                {CrudRow(crudNextId, userId, v)})
    /\ UNCHANGED <<clientVars, adminVars, crudPending>>

\* update and delete up to the write: findOne, and the throw when it finds
\* nothing.
CrudCheck(svc, op, id, userId, v) ==
    /\ op \in {"update", "delete"}
    /\ IF Found(svc, id, userId) = {}
       THEN /\ crudResult' = CrudThrow(svc, op, id, userId, NotFoundError(svc))
            /\ UNCHANGED crudPending
       ELSE /\ Cardinality(crudPending) < MaxPending
            /\ crudPending' =
                  crudPending \cup {[svc |-> svc, op |-> op, id |-> id, userId |-> userId,
                                     val |-> v]}
            /\ UNCHANGED crudResult
    /\ UNCHANGED <<clientVars, adminVars, crud, crudNextId>>

\* update after the await: prisma.update({ where: { id }, data: dto }).
CrudUpdateWrite(c) ==
    /\ c \in crudPending
    /\ c.op = "update"
    /\ LET hit == {row \in crud[c.svc] : row.id = c.id}
           new == {[row EXCEPT !.val = c.val] : row \in hit}
       IN  IF hit = {}
           THEN /\ crudResult' = CrudThrow(c.svc, "update", c.id, c.userId, PrismaNotFound)
                /\ UNCHANGED crud
           ELSE /\ crud' = [crud EXCEPT ![c.svc] = (@ \ hit) \cup new]
                /\ crudResult' = CrudReturn(c.svc, "update", c.id, c.userId, new)
    /\ crudPending' = crudPending \ {c}
    /\ UNCHANGED <<clientVars, adminVars, crudNextId>>

\* delete after the await: prisma.delete({ where: { id } }).
CrudDeleteWrite(c) ==
    /\ c \in crudPending
    /\ c.op = "delete"
    /\ LET hit == {row \in crud[c.svc] : row.id = c.id}
       IN  IF hit = {}
           THEN /\ crudResult' = CrudThrow(c.svc, "delete", c.id, c.userId, PrismaNotFound)
                /\ UNCHANGED crud
           ELSE /\ crud' = [crud EXCEPT ![c.svc] = @ \ hit]
                /\ crudResult' = CrudReturn(c.svc, "delete", c.id, c.userId, {})
    /\ crudPending' = crudPending \ {c}
    /\ UNCHANGED <<clientVars, adminVars, crudNextId>>

\* ------------------------------------------------------------- provider data
GoldRec(i, v) ==
    [id |-> i, weightGrams |-> Raw(1), purchasePrice |-> Raw(1), currentValue |-> v]
StockRec(i, q, price) == [id |-> i, quantity |-> q, currentPrice |-> price]
PropertyRec(i, v) ==
    [id |-> i, purchasePrice |-> Raw(1), currentValue |-> v, area |-> Raw(1)]
BankRec(i, type, bal) == [id |-> i, accountType |-> type, balance |-> bal]
LoanRec(i, v) ==
    [id |-> i, principal |-> Raw(1), outstanding |-> v, emiAmount |-> Raw(1),
     interestRate |-> Raw(1)]
BondRec(i, face, cur) ==
    [id |-> i, faceValue |-> face, currentValue |-> cur, interestRate |-> Raw(1)]
MutualFundRec(i, v) ==
    [id |-> i, units |-> Raw(1), avgNav |-> Raw(1), currentNav |-> Raw(1), currentValue |-> v]
CardRec(i, v) == [id |-> i, creditLimit |-> Raw(1), usedAmount |-> v]

NoRecords == [p \in Providers |-> <<>>]

\* The records the providers hold in Spec and SpecRun.
RecordsA ==
    [gold |-> <<GoldRec(1, Raw(2))>>,
     stocks |-> <<StockRec(1, Raw(2), Raw(1))>>,
     property |-> <<PropertyRec(1, Raw(1))>>,
     bankAccounts |-> <<BankRec(1, "Savings", Raw(1)), BankRec(2, "Wallet", Raw(2))>>,
     loans |-> <<LoanRec(1, Raw(1))>>,
     bonds |-> <<BondRec(1, Raw(2), Raw(1))>>,
     mutualFunds |-> <<MutualFundRec(1, Raw(1))>>,
     creditCards |-> <<CardRec(1, Raw(1))>>]

RecordsB ==
    [NoRecords EXCEPT !["stocks"] = <<StockRec(1, Raw(1), Raw(1))>>,
                      !["creditCards"] = <<CardRec(1, Raw(2))>>]

Backend0 == [u \in Users |-> IF u = "A" THEN RecordsA ELSE RecordsB]

\* The field values and record lists SpecAgg draws from.
RawVals == {Raw(0), Raw(1), Raw(2), Missing, Garbage}
AccountTypes == {"Wallet", "Savings", None}

SeqsUpTo(S) == UNION {[1..n -> S] : n \in 0..MaxItems}

DrawnLists(p) ==
    CASE p = "gold" -> {[i \in DOMAIN l |-> GoldRec(i, l[i])] : l \in SeqsUpTo(RawVals)}
      [] p = "stocks" ->
            {[i \in DOMAIN l |-> StockRec(i, l[i][1], l[i][2])] :
                l \in SeqsUpTo(RawVals \X RawVals)}
      [] p = "property" ->
            {[i \in DOMAIN l |-> PropertyRec(i, l[i])] : l \in SeqsUpTo(RawVals)}
      [] p = "bankAccounts" ->
            {[i \in DOMAIN l |-> BankRec(i, l[i][1], l[i][2])] :
                l \in SeqsUpTo(AccountTypes \X RawVals)}
      [] p = "loans" -> {[i \in DOMAIN l |-> LoanRec(i, l[i])] : l \in SeqsUpTo(RawVals)}
      [] p = "bonds" ->
            {[i \in DOMAIN l |-> BondRec(i, l[i][1], l[i][2])] :
                l \in SeqsUpTo(RawVals \X RawVals)}
      [] p = "mutualFunds" ->
            {[i \in DOMAIN l |-> MutualFundRec(i, l[i])] : l \in SeqsUpTo(RawVals)}
      [] p = "creditCards" ->
            {[i \in DOMAIN l |-> CardRec(i, l[i])] : l \in SeqsUpTo(RawVals)}

\* ------------------------------------------------------------ specifications
\* Nothing outside the engine misbehaves: localStorage accepts writes, every
\* provider answers with a list, no refresh token is stored.
NoFaults ==
    /\ storageFull = FALSE
    /\ payload = [p \in Providers |-> "list"]
    /\ refreshToken = None

\* The state after construction: the useState initial values, an empty localStorage.
InitProvider ==
    /\ isLoading = TRUE
    /\ currentUserId = None
    /\ data = ZeroSnapshot
    /\ shown = NotShown
    /\ runs = [r \in RunIds |-> IdleRun]
    /\ started = 0
    /\ mounted = FALSE
    /\ timers = 0
    /\ tornDown = FALSE
    /\ monitorUserId = None
    /\ polled = FALSE
    /\ lastCommit = NoCommit
    /\ lastCall = "none"

\* CurrencyProvider is not mounted and no preference is saved.
CurrencyIdle ==
    /\ currency = DefaultCode
    /\ currencyUserId = None
    /\ currencyPollId = None
    /\ currencyMounted = FALSE
    /\ preferredCurrency = [u \in Users |-> None]

InitClient == InitProvider /\ CurrencyIdle

\* ... and a backend on which no administrative call is made.
InitStore == InitClient /\ ServerIdle

Init ==
    /\ InitStore
    /\ token = FALSE
    /\ accessToken = None
    /\ savedUser = None
    /\ activeGoal = [u \in Users |-> IF u = "A" THEN Goal(Raw(0)) ELSE NoGoal]
    /\ backend = Backend0
    /\ NoFaults

\* The provider failures the engine specification draws for a run.
EngineFailSets == {{}, {"bonds"}}

\* Every request of a run settles (one burst of responses).
SettleAll == \E r \in RunIds : \E F \in EngineFailSets : FetchSettle(r, PendingOf(r), F)

\* One request of a run settles, with success or failure.
SettleOne ==
    \E r \in RunIds : \E p \in Providers : \E F \in SUBSET {p} : FetchSettle(r, {p}, F)

Resume == \E r \in RunIds : LoadDataResume(r)

Next ==
    \/ Mount
    \/ checkUserChange
    \/ UseEffectRearm
    \/ refreshNetWorth
    \/ resetNetWorth
    \/ \E u \in Users : login(u)
    \/ logout
    \/ SessionSetToken
    \/ SessionRemoveToken
    \/ SettleAll
    \/ Resume

Spec == Init /\ [][Next]_vars

\* One run for a signed-in user, request by request.
InitRun ==
    /\ InitStore
    /\ token = TRUE
    /\ accessToken = "A"
    /\ savedUser = "A"
    /\ activeGoal = [u \in Users |-> IF u = "A" THEN Goal(Raw(0)) ELSE NoGoal]
    /\ backend = Backend0
    /\ NoFaults

NextRun == Mount \/ SettleOne \/ Resume

SpecRun == InitRun /\ [][NextRun]_vars

\* Runs of user A whose goal record is absent, readable or unreadable, with a
\* localStorage that accepts or refuses writes.
InitGoal ==
    /\ InitStore
    /\ token = TRUE
    /\ accessToken = "A"
    /\ savedUser = "A"
    /\ \E g \in {NoGoal, Goal(Raw(0)), BadGoal} :
           activeGoal = [u \in Users |-> IF u = "A" THEN g ELSE NoGoal]
    /\ backend = Backend0
    /\ storageFull \in BOOLEAN
    /\ payload = [p \in Providers |-> "list"]
    /\ refreshToken = None

NextGoal == Mount \/ refreshNetWorth \/ SettleAll \/ Resume

SpecGoal == InitGoal /\ [][NextGoal]_vars

\* The category update entry points, called with any items, around runs and
\* session changes.
NextUpdate ==
    \/ Mount
    \/ \E e \in EntryPoints : \E items \in ItemArgs : update(e, items)
    \/ \E u \in Users : login(u)
    \/ logout
    \/ SettleAll
    \/ Resume

SpecUpdate == InitRun /\ [][NextUpdate]_vars

\* What a provider may put in the data field of a successful response.
PayloadKinds == {"list", "null", "object"}

\* Runs of user A while at most one provider answers with something else
\* than a list.
InitPayload ==
    /\ InitStore
    /\ token = TRUE
    /\ accessToken = "A"
    /\ savedUser = "A"
    /\ activeGoal = [u \in Users |-> IF u = "A" THEN Goal(Raw(0)) ELSE NoGoal]
    /\ backend = Backend0
    /\ storageFull = FALSE
    /\ \E q \in Providers : \E k \in PayloadKinds :
           payload = [p \in Providers |-> IF p = q THEN k ELSE "list"]
    /\ refreshToken = None

NextPayload == Mount \/ refreshNetWorth \/ SettleAll \/ Resume

SpecPayload == InitPayload /\ [][NextPayload]_vars

\* Runs of user A on every path of loadData: the stored user is present,
\* absent or unreadable, the bonds provider answers with a list or an object.
InitLive ==
    /\ InitStore
    /\ token = TRUE
    /\ accessToken = "A"
    /\ savedUser \in {"A", None, Bad}
    /\ activeGoal = [u \in Users |-> IF u = "A" THEN Goal(Raw(0)) ELSE NoGoal]
    /\ backend = Backend0
    /\ storageFull = FALSE
    /\ \E k \in {"list", "object"} :
           payload = [p \in Providers |-> IF p = "bonds" THEN k ELSE "list"]
    /\ refreshToken = None

\* Every request of run r settles at once.
SettleRun(r) == \E F \in EngineFailSets : FetchSettle(r, PendingOf(r), F)

NextLive ==
    \/ Mount
    \/ refreshNetWorth
    \/ logout
    \/ SessionCorruptUser
    \/ \E r \in RunIds : SettleRun(r)
    \/ Resume

\* The continuation of run r runs: what LoadDataResume(r) does to the runs.
\* No other action of NextLive takes a run from fetching to done.
ResumeStep(r) ==
    /\ runs[r].status = "fetching"
    /\ JoinReady(runs[r].res) \/ JoinRejected(runs[r].res)
    /\ runs' = [runs EXCEPT ![r] = DoneRun]

\* Every issued request eventually settles, and the scheduler eventually
\* runs a continuation whose promise has settled.
FairLive == \A r \in RunIds : WF_vars(SettleRun(r)) /\ WF_runs(ResumeStep(r))

SpecLive == InitLive /\ [][NextLive]_vars /\ FairLive

\* The lifetime of the provider: mount, poll ticks, re-arming, unmount,
\* around session changes and runs.
NextTeardown ==
    \/ Mount
    \/ checkUserChange
    \/ UseEffectRearm
    \/ Unmount
    \/ \E u \in Users : login(u)
    \/ logout
    \/ SessionRemoveToken
    \/ SettleAll
    \/ Resume

SpecTeardown == InitRun /\ [][NextTeardown]_vars

\* User A is signed in for the engine ('token', 'user'), the access token is
\* gone and a refresh token of A is stored.
InitRetry ==
    /\ InitStore
    /\ token = TRUE
    /\ accessToken = None
    /\ savedUser = "A"
    /\ activeGoal = [u \in Users |-> IF u = "A" THEN Goal(Raw(0)) ELSE NoGoal]
    /\ backend = Backend0
    /\ storageFull = FALSE
    /\ payload = [p \in Providers |-> "list"]
    /\ refreshToken = "A"

NextRetry ==
    \/ Mount
    \/ \E r \in RunIds : \E p \in Providers : \E t \in Users \cup {Expired} :
          RefreshAndRetry(r, p, t)
    \/ \E r \in RunIds : \E p \in Providers : RefreshFails(r, p)
    \/ SettleAll
    \/ Resume

SpecRetry == InitRetry /\ [][NextRetry]_vars

\* The databases the administrative calls start from, and the data files
\* importData is given.
OneRowEach(i, u) == [t \in Tables \ {"user"} |-> {Row(i, u)}]
MakeDb(users, rows) == [t \in Tables |-> IF t = "user" THEN users ELSE rows[t]]
NoRows == [t \in Tables \ {"user"} |-> {}]
LedgerRows(i, u) ==
    [t \in Tables \ {"user"} |->
        IF t \in {"category", "transaction", "expenseCategory", "expense"}
        THEN {Row(i, u)} ELSE {}]

Databases ==
    {MakeDb({AdminRow}, NoRows),
     MakeDb({AdminRow, UserRow("u1", "u1@example.com")}, OneRowEach(1, "u1")),
     MakeDb({AdminRow, UserRow("u1", "u1@example.com")}, LedgerRows(1, "u1")),
     MakeDb({UserRow("u1", "u1@example.com")}, OneRowEach(1, "u1"))}

MakeFile(users, rows) ==
    [t \in Tables |-> IF t = "user" THEN Present(users) ELSE Present(rows[t])]

DataFiles ==
    {[t \in Tables |-> Absent],
     MakeFile({UserRow("admin2", AdminEmail), UserRow("u2", "u2@example.com")},
              OneRowEach(2, "u2")),
     MakeFile({UserRow("u2", "u2@example.com")}, LedgerRows(2, "u2")),
     [t \in Tables |->
         IF t \in {"category", "transaction"} THEN Present({Row(2, "admin")}) ELSE Absent],
     [t \in Tables |->
         IF t = "user" THEN Present({UserRow("admin2", AdminEmail)})
         ELSE IF t = "goal" THEN Present({Row(3, "admin2")})
         ELSE Absent]}

\* The administrative calls on a database drawn from Databases; the engine
\* is not mounted.
InitAdmin ==
    /\ InitClient
    /\ token = FALSE
    /\ accessToken = None
    /\ savedUser = None
    /\ activeGoal = [u \in Users |-> NoGoal]
    /\ backend = Backend0
    /\ NoFaults
    /\ db \in Databases
    /\ adminPc = IdlePc
    /\ importFile = [t \in Tables |-> Absent]
    /\ adminResult = NoResult
    /\ foreignKeys \in BOOLEAN
    /\ CrudIdle

NextAdmin ==
    \/ resetDatabase
    \/ \E file \in DataFiles : importData(file)
    \/ ResetFind
    \/ ResetDelete
    \/ ResetDeleteUsers
    \/ ImportUsers
    \/ ImportCreate

SpecAdmin == InitAdmin /\ [][NextAdmin]_vars

\* Both users have a goal record; the session changes while runs are in
\* flight.
InitScope ==
    /\ InitStore
    /\ token = TRUE
    /\ accessToken = "A"
    /\ savedUser = "A"
    /\ activeGoal = [u \in Users |-> Goal(Raw(0))]
    /\ backend = Backend0
    /\ NoFaults

NextScope ==
    \/ Mount
    \/ refreshNetWorth
    \/ resetNetWorth
    \/ \E u \in Users : login(u)
    \/ logout
    \/ SettleAll
    \/ Resume

SpecScope == InitScope /\ [][NextScope]_vars

\* CurrencyProvider under logins, logouts, ticks and currency choices; the
\* engine is not mounted.
InitCurrency ==
    /\ InitProvider
    /\ token = FALSE
    /\ accessToken = None
    /\ savedUser = None
    /\ activeGoal = [u \in Users |-> NoGoal]
    /\ backend = Backend0
    /\ NoFaults
    /\ ServerIdle
    /\ currency = DefaultCode
    /\ currencyUserId = None
    /\ currencyPollId = None
    /\ currencyMounted = FALSE
    /\ preferredCurrency \in [Users -> SavedCodes]

NextCurrency ==
    \/ \E u \in Users : login(u)
    \/ logout
    \/ CurrencyMount
    \/ CurrencyRearm
    \/ CurrencyCheckUserChange
    \/ \E code \in KnownCodes : setCurrency(code)
    \/ resetCurrency

SpecCurrency == InitCurrency /\ [][NextCurrency]_vars

\* The CRUD services called by both users in any order, calls interleaving
\* at their awaits; the engine is not mounted.
InitCrud ==
    /\ InitClient
    /\ token = FALSE
    /\ accessToken = None
    /\ savedUser = None
    /\ activeGoal = [u \in Users |-> NoGoal]
    /\ backend = Backend0
    /\ NoFaults
    /\ AdminIdle
    /\ CrudIdle

NextCrud ==
    \/ \E svc \in Services : \E u \in Users : findAll(svc, u)
    \/ \E svc \in Services : \E id \in CrudIds : \E u \in Users : findOne(svc, id, u)
    \/ \E svc \in Services : \E u \in Users : \E v \in DtoVals : create(svc, u, v)
    \/ \E svc \in Services : \E op \in {"update", "delete"} : \E id \in CrudIds :
          \E u \in Users : \E v \in DtoVals : CrudCheck(svc, op, id, u, v)
    \/ \E c \in crudPending : CrudUpdateWrite(c)
    \/ \E c \in crudPending : CrudDeleteWrite(c)

SpecCrud == InitCrud /\ [][NextCrud]_vars

\* Two gold items worth 100 and 50 and no other record.
GoldExample ==
    [NoRecords EXCEPT !["gold"] = <<GoldRec(1, Raw(100)), GoldRec(2, Raw(50))>>]

\* One run over drawn provider records: one provider's list is drawn freely,
\* the others hold RecordsA; or the providers hold GoldExample.
InitAgg ==
    /\ InitStore
    /\ token = TRUE
    /\ accessToken = "A"
    /\ savedUser = "A"
    /\ activeGoal = [u \in Users |-> IF u = "A" THEN Goal(Raw(0)) ELSE NoGoal]
    /\ \/ \E p \in Providers : \E l \in DrawnLists(p) :
              backend = [Backend0 EXCEPT !["A"][p] = l]
       \/ backend = [Backend0 EXCEPT !["A"] = GoldExample]
    /\ NoFaults

NextAgg == Mount \/ SettleAll \/ Resume

SpecAgg == InitAgg /\ [][NextAgg]_vars

\* A signed-in session whose 'user' entry may be overwritten with unreadable
\* text and repaired by the next login.
NextSession ==
    \/ Mount
    \/ checkUserChange
    \/ UseEffectRearm
    \/ refreshNetWorth
    \/ SessionCorruptUser
    \/ \E u \in Users : login(u)
    \/ SettleAll
    \/ Resume

SpecSession == InitRun /\ [][NextSession]_vars

\* ------------------------------------------------------------------ claims
NoRunInFlight == \A r \in RunIds : runs[r].status # "fetching"

\* C1: the store never shows data fetched by a run started for one identity
\* while the recorded owner (currentUserId) is another identity.
C1_NoForeignData ==
    ~(shown.run # 0 /\ currentUserId \in Users /\ shown.user \in Users
        /\ shown.user # currentUserId)

\* C2: last-intent-wins: once all runs have settled, a visible populated
\* snapshot is the one computed by the run that was started last.
C2_LastIntentWins == (NoRunInFlight /\ shown.run # 0) => shown.run = started

\* C3: reset-before-load: the step that issues the fetches of a run leaves the
\* zero snapshot with loading = true in the store, all eight requests pending
\* and nothing of that run committed.
C3_ResetBeforeLoad ==
    [][started' # started =>
          /\ data' = ZeroSnapshot
          /\ isLoading' = TRUE
          /\ shown'.run = 0
          /\ runs'[started'].status = "fetching"
          /\ \A p \in Providers : runs'[started'].res[p].st = "pending"]_vars

\* C3 witness: a second run has just been started after an earlier run for A
\* committed a populated snapshot (its net worth reached A's goal record).
C3_Witness ==
    /\ started = 2
    /\ runs[2].status = "fetching"
    /\ runs[1].status = "done"
    /\ activeGoal["A"].currentNetWorth # Raw(0)
    /\ data = ZeroSnapshot
    /\ isLoading

\* C4: logout reset: with A's snapshot in the store and the session as
\* AuthProvider.logout leaves it, a poll tick of the armed monitor leaves the
\* zero snapshot and no recorded owner.
C4_LogoutReset ==
    [][(/\ checkUserChange
        /\ ~polled
        /\ savedUser = None
        /\ accessToken = None
        /\ currentUserId \in Users
        /\ monitorUserId = currentUserId
        /\ shown.run # 0
        /\ shown.user = currentUserId)
       => (data' = ZeroSnapshot /\ currentUserId' = None)]_vars

\* C5: no populated snapshot is visible while the recorded owner is absent.
C5_ZeroWhileOwnerAbsent == currentUserId = None => (data = ZeroSnapshot /\ shown.run = 0)

\* C6: identity-appeared triggers a run: once AuthProvider.login has written
\* the session for an identity other than the recorded owner, a poll tick of
\* the armed monitor starts a run for that identity.
C6_LoginStartsRun ==
    [][(/\ checkUserChange
        /\ ~polled
        /\ accessToken \in Users
        /\ savedUser = accessToken
        /\ monitorUserId = currentUserId
        /\ currentUserId # savedUser)
       => (/\ started' = started + 1
           /\ runs'[started'].status = "fetching"
           /\ runs'[started'].userId = savedUser)]_vars

\* C7: in every state of the store, totalAssets is the sum of the six asset
\* totals of the same snapshot, totalLiabilities is loans plus credit cards,
\* and netWorth is totalAssets minus totalLiabilities.
C7_TotalsConsistent ==
    /\ data.totalAssets =
          Add(Add(Add(Add(Add(data.gold.totalValue, data.bonds.totalValue),
                          data.stocks.totalValue),
                      data.property.totalValue),
                  data.mutualFunds.totalValue),
              data.cash.totalCash)
    /\ data.totalLiabilities = Add(data.loans.totalValue, data.creditCards.totalValue)
    /\ data.netWorth = Sub(data.totalAssets, data.totalLiabilities)

\* C7 witness: a populated snapshot in which assets, cash and liabilities are
\* all non-zero and one drawn record carried a malformed value.
C7_Witness ==
    /\ shown.run # 0
    /\ data.gold.totalValue.v > 0
    /\ data.cash.totalCash.v > 0
    /\ data.totalLiabilities.v > 0
    /\ \E i \in DOMAIN data.loans.items : data.loans.items[i].outstandingBalance.nan

\* The records the bank-account provider returned to the run whose snapshot is shown.
ReturnedBankRecords ==
    IF "bankAccounts" \in shown.failed THEN <<>> ELSE backend[shown.req]["bankAccounts"]

\* A balance coerced to a number: 0 for a malformed one.
CoercedBalance(rec) == IF rec.balance.t = "num" THEN rec.balance.v ELSE 0

RECURSIVE SumCoerced(_)
SumCoerced(s) == IF s = <<>> THEN 0 ELSE CoercedBalance(Head(s)) + SumCoerced(Tail(s))

IdsOf(s) == {s[i].id : i \in DOMAIN s}

\* C8: cash partition: every record the bank-account provider returned is in
\* exactly one list (wallets iff accountType is 'Wallet'), none is dropped or
\* duplicated, and totalCash = totalBank + totalWallet = the sum of the
\* coerced balances of all returned records.
C8_CashPartition ==
    shown.run # 0 =>
        LET all == ReturnedBankRecords
            bank == data.cash.bankAccounts
            wal == data.cash.wallets
        IN  /\ IdsOf(wal) = {all[i].id : i \in {j \in DOMAIN all : all[j].accountType = "Wallet"}}
            /\ IdsOf(bank) = {all[i].id : i \in {j \in DOMAIN all : all[j].accountType # "Wallet"}}
            /\ Cardinality(IdsOf(wal)) = Len(wal)
            /\ Cardinality(IdsOf(bank)) = Len(bank)
            /\ Len(wal) + Len(bank) = Len(all)
            /\ data.cash.totalCash = Add(data.cash.totalBank, data.cash.totalWallet)
            /\ data.cash.totalCash = N(SumCoerced(all))

\* C8 witness: a committed partition with a wallet, a record without an
\* account type and a malformed balance.
C8_Witness ==
    /\ shown.run # 0
    /\ Len(data.cash.wallets) = 1
    /\ Len(data.cash.bankAccounts) = 1
    /\ data.cash.bankAccounts[1].accountType = None
    /\ \E i \in DOMAIN ReturnedBankRecords : ReturnedBankRecords[i].balance.t # "num"
    /\ data.cash.totalCash.v > 0

\* The bucket of provider p in snapshot d (the bank-account provider feeds cash).
Bucket(d, p) ==
    CASE p = "gold" -> d.gold
      [] p = "stocks" -> d.stocks
      [] p = "property" -> d.property
      [] p = "bankAccounts" -> d.cash
      [] p = "loans" -> d.loans
      [] p = "bonds" -> d.bonds
      [] p = "mutualFunds" -> d.mutualFunds
      [] p = "creditCards" -> d.creditCards

\* C9: bulkhead isolation: whatever subset of the eight requests fails, the
\* run commits; each failed category is empty with total 0 and every other
\* bucket is what it is when no provider fails.
C9_Bulkhead ==
    /\ [](shown.run # 0 =>
            \A p \in Providers :
                Bucket(data, p) =
                    IF p \in shown.failed
                    THEN Bucket(ZeroSnapshot, p)
                    ELSE Bucket(Compose(backend[shown.req]), p))
    /\ [][\A r \in RunIds :
            (runs[r].status = "fetching" /\ runs'[r].status = "done")
                => (shown'.run = r /\ shown'.failed = runs[r].failed)]_vars

\* C9 witness: only the bonds provider failed; bonds are empty and the other
\* totals are those of the provider's records.
C9_Witness ==
    /\ shown.run # 0
    /\ shown.failed = {"bonds"}
    /\ data.bonds = [items |-> <<>>, totalValue |-> N(0)]
    /\ data.gold.totalValue = N(2)
    /\ data.cash.totalCash = N(3)
    /\ data.totalAssets = N(9)

\* C10: join, no partial commit: a run writes the snapshot only in the one
\* step that ends it, with all eight requests settled, and writes the whole
\* snapshot composed from the eight responses.
C10_JoinNoPartialCommit ==
    [][\A r \in RunIds :
          (runs[r].status = "fetching" /\ (data' # data \/ shown' # shown))
              => (/\ \A p \in Providers : runs[r].res[p].st = "ok"
                  /\ runs'[r].status = "done"
                  /\ data' = Compose(RespData(runs[r].res)))]_vars

\* C10 witness: the run has ended and its populated snapshot is in the store.
C10_Witness ==
    /\ shown.run = 1
    /\ runs[1].status = "done"
    /\ data # ZeroSnapshot
    /\ data.totalAssets.v > 0

\* C11: a call of loadData made while the token or the stored user is missing
\* leaves the zero snapshot and loading = false in the store, whatever
\* snapshot was there before.
C11_NoIdentityCommitsZero ==
    [][lastCall' = "noIdentity" => (data' = ZeroSnapshot /\ isLoading' = FALSE)]_vars

\* C12: a call of loadData made while the token or the stored user is missing
\* starts no request, writes no goal record and leaves the snapshot and the
\* recorded owner as they were; the loading flag ends false.
C12_NoIdentityLeavesStore ==
    [][lastCall' = "noIdentity" =>
          /\ isLoading' = FALSE
          /\ data' = data
          /\ shown' = shown
          /\ currentUserId' = currentUserId
          /\ runs' = runs
          /\ started' = started
          /\ activeGoal' = activeGoal]_vars

\* C12 witness: loadData has just returned for want of an identity while the
\* store holds a populated snapshot and its owner.
C12_Witness ==
    /\ lastCall = "noIdentity"
    /\ ~token \/ savedUser = None
    /\ shown.run # 0
    /\ data.totalAssets.v > 0
    /\ currentUserId \in Users
    /\ ~isLoading

\* C13: with a token present and a stored user that cannot be parsed, a poll
\* tick of the armed monitor, and likewise a call of loadData, ends with the
\* populated snapshot of the known identity replaced by the zero snapshot and
\* no recorded owner.
C13_MalformedUserResets ==
    [][(/\ token
        /\ savedUser = Bad
        /\ shown.run # 0
        /\ currentUserId \in Users
        /\ shown.user = currentUserId
        /\ \/ lastCall' = "parseError"
           \/ checkUserChange /\ ~polled /\ monitorUserId = currentUserId)
       => (data' = ZeroSnapshot /\ currentUserId' = None)]_vars

\* The records provider p returned to the run whose snapshot is shown.
ReturnedRecords(p) == IF p \in shown.failed THEN <<>> ELSE backend[shown.req][p]

IsNum(x) == x.t = "num"

\* The value field of a record of provider p is a number (for a bond: the
\* current value or, failing that, the face value).
WellFormedValue(p, rec) ==
    CASE p = "gold" -> IsNum(rec.currentValue)
      [] p = "stocks" -> IsNum(rec.quantity) /\ IsNum(rec.currentPrice)
      [] p = "property" -> IsNum(rec.currentValue)
      [] p = "bankAccounts" -> IsNum(rec.balance)
      [] p = "loans" -> IsNum(rec.outstanding)
      [] p = "bonds" -> IsNum(rec.currentValue) \/ IsNum(rec.faceValue)
      [] p = "mutualFunds" -> IsNum(rec.currentValue)
      [] p = "creditCards" -> IsNum(rec.usedAmount)

\* The returned records without those whose value field is malformed.
WellFormedRecords ==
    [p \in Providers |->
        SelectSeq(ReturnedRecords(p), LAMBDA rec : WellFormedValue(p, rec))]

\* Every total of snapshot d.
TotalsOf(d) ==
    [gold |-> d.gold.totalValue, bonds |-> d.bonds.totalValue,
     stocks |-> d.stocks.totalValue, property |-> d.property.totalValue,
     mutualFunds |-> d.mutualFunds.totalValue, totalBank |-> d.cash.totalBank,
     totalWallet |-> d.cash.totalWallet, totalCash |-> d.cash.totalCash,
     loans |-> d.loans.totalValue, creditCards |-> d.creditCards.totalValue,
     totalAssets |-> d.totalAssets, totalLiabilities |-> d.totalLiabilities,
     netWorth |-> d.netWorth]

\* C14: whatever mix of numeric and malformed value fields the providers
\* return, every total of the committed snapshot is a number (not NaN), and
\* the totals are those of the same records with the malformed-value items
\* left out: such an item adds 0 and changes no other item's contribution.
C14_TotalsWellDefined ==
    shown.run # 0 =>
        /\ \A k \in DOMAIN TotalsOf(data) : ~TotalsOf(data)[k].nan
        /\ TotalsOf(data) = TotalsOf(Compose(WellFormedRecords))

\* C14 witness: two gold records were returned, one worth 2 and one with a
\* malformed value; the committed gold total is 2.
C14_Witness ==
    /\ shown.run # 0
    /\ Len(data.gold.items) = 2
    /\ \E i \in 1..2 : data.gold.items[i].totalValue.nan
    /\ \E i \in 1..2 : data.gold.items[i].totalValue = N(2)
    /\ data.gold.totalValue = N(2)

\* Every canonical record of snapshot d, whatever its bucket.
CanonicalRecords(d) ==
    d.gold.items \o d.bonds.items \o d.stocks.items \o d.property.items
        \o d.mutualFunds.items \o d.cash.bankAccounts \o d.cash.wallets
        \o d.loans.items \o d.creditCards.items

NumericFields(item) == DOMAIN item \ {"id", "accountType"}

\* C15: no canonical record of a committed snapshot holds NaN in a numeric
\* field: a field whose source value did not parse holds the number 0.
C15_RecordsHoldNoNaN ==
    shown.run # 0 =>
        \A i \in DOMAIN CanonicalRecords(data) :
            \A f \in NumericFields(CanonicalRecords(data)[i]) :
                ~CanonicalRecords(data)[i][f].nan

\* The face value of a bond record as a number: 0 when it is malformed.
CoercedFace(rec) == IF IsNum(rec.faceValue) THEN rec.faceValue.v ELSE 0

RECURSIVE SumFace(_)
SumFace(s) == IF s = <<>> THEN 0 ELSE CoercedFace(Head(s)) + SumFace(Tail(s))

\* C16: bond fallback: when the current value of every returned bond record
\* is non-numeric, each record with a valid face value contributes its face
\* value to the bonds total and each record with both fields non-numeric
\* contributes 0.
C16_BondFallback ==
    (/\ shown.run # 0
     /\ \A i \in DOMAIN ReturnedRecords("bonds") :
            ~IsNum(ReturnedRecords("bonds")[i].currentValue))
        => data.bonds.totalValue = N(SumFace(ReturnedRecords("bonds")))

\* C16 witness: one bond with a non-numeric current value and face value 2,
\* one with both fields non-numeric; the committed bonds total is 2.
C16_Witness ==
    /\ shown.run # 0
    /\ Len(ReturnedRecords("bonds")) = 2
    /\ \A i \in 1..2 : ~IsNum(ReturnedRecords("bonds")[i].currentValue)
    /\ \E i \in 1..2 : ReturnedRecords("bonds")[i].faceValue = Raw(2)
    /\ \E i \in 1..2 : ~IsNum(ReturnedRecords("bonds")[i].faceValue)
    /\ data.bonds.totalValue = N(2)

\* The contribution section 4.2 gives a bond record: the current value when
\* it is a number, else the face value when that is a number, else 0.
BondBasis(rec) ==
    IF IsNum(rec.currentValue) THEN rec.currentValue.v ELSE CoercedFace(rec)

RECURSIVE SumBondBasis(_)
SumBondBasis(s) == IF s = <<>> THEN 0 ELSE BondBasis(Head(s)) + SumBondBasis(Tail(s))

\* C17: every bond record whose current value is a number, 0 included,
\* contributes that current value to the bonds total; the face value counts
\* only when the current value is absent.
C17_BondCurrentValueFirst ==
    shown.run # 0 => data.bonds.totalValue = N(SumBondBasis(ReturnedRecords("bonds")))

\* The value basis of a record of provider p whose value field is a number.
ValueBasis(p, rec) ==
    CASE p = "gold" -> rec.currentValue.v
      [] p = "stocks" -> rec.quantity.v * rec.currentPrice.v
      [] p = "property" -> rec.currentValue.v
      [] p = "bankAccounts" -> rec.balance.v
      [] p = "loans" -> rec.outstanding.v
      [] p = "mutualFunds" -> rec.currentValue.v
      [] p = "creditCards" -> rec.usedAmount.v

RECURSIVE SumBasis(_, _)
SumBasis(p, s) == IF s = <<>> THEN 0 ELSE ValueBasis(p, Head(s)) + SumBasis(p, Tail(s))

AllWellFormed(p) ==
    \A i \in DOMAIN ReturnedRecords(p) : WellFormedValue(p, ReturnedRecords(p)[i])

\* C18: each bucket total of a committed snapshot is the sum of the
\* category's value basis over the returned records (gold: currentValue,
\* stocks: quantity x currentPrice, property and mutual funds: currentValue,
\* bank accounts and wallets: balance, loans: outstanding, credit cards:
\* usedAmount); gold items worth 100 and 50 alone give gold total, totalAssets
\* and netWorth 150; an empty provider result gives an empty bucket of total 0.
C18_BucketTotals ==
    shown.run # 0 =>
        /\ \A p \in Providers \ {"bonds", "bankAccounts"} :
              AllWellFormed(p) =>
                  /\ Len(Bucket(data, p).items) = Len(ReturnedRecords(p))
                  /\ Bucket(data, p).totalValue = N(SumBasis(p, ReturnedRecords(p)))
        /\ AllWellFormed("bankAccounts") =>
              /\ data.cash.totalBank =
                    N(SumBasis("bankAccounts",
                               SelectSeq(ReturnedRecords("bankAccounts"), IsBankAccount)))
              /\ data.cash.totalWallet =
                    N(SumBasis("bankAccounts",
                               SelectSeq(ReturnedRecords("bankAccounts"), IsWallet)))
        /\ \A p \in Providers :
              ReturnedRecords(p) = <<>> => Bucket(data, p) = Bucket(ZeroSnapshot, p)
        /\ (backend[shown.req] = GoldExample /\ shown.failed = {}) =>
              /\ data.gold.totalValue = N(150)
              /\ data.totalAssets = N(150)
              /\ data.netWorth = N(150)

\* C18 witness: the committed snapshot of the two gold items worth 100 and 50.
C18_Witness ==
    /\ shown.run # 0
    /\ Len(data.gold.items) = 2
    /\ data.gold.items[1].totalValue = N(100)
    /\ data.gold.items[2].totalValue = N(50)
    /\ data.gold.totalValue = N(150)
    /\ data.stocks = [items |-> <<>>, totalValue |-> N(0)]
    /\ data.totalAssets = N(150)
    /\ data.netWorth = N(150)

\* Run r commits in this step.
Commits(r) == runs[r].status = "fetching" /\ runs'[r].status = "done" /\ shown'.run = r

C20_GoalSynchronized ==
    [][\A r \in RunIds :
          Commits(r) =>
              LET X == runs[r].userId
              IN  /\ activeGoal[X].st = "ok" =>
                        /\ ~data'.netWorth.nan
                        /\ activeGoal'[X] =
                              [activeGoal[X] EXCEPT !.currentNetWorth = Raw(data'.netWorth.v)]
                  /\ activeGoal[X].st = "none" => activeGoal'[X] = NoGoal
                  /\ \A u \in Users \ {X} : activeGoal'[u] = activeGoal[u]]_vars

\* C20 witness: the first run, started for A, has committed a snapshot of
\* non-zero net worth that A's goal record now holds in place of the stored
\* 0, and B still has no goal record.
C20_Witness ==
    /\ shown.run = 1
    /\ shown.user = "A"
    /\ data.netWorth.v # 0
    /\ activeGoal["A"].st = "ok"
    /\ activeGoal["A"].currentNetWorth = Raw(data.netWorth.v)
    /\ activeGoal["A"].rest = "fields"
    /\ activeGoal["B"] = NoGoal

\* Run r ends in this step: loadData returns to its caller.
Finishes(r) == runs[r].status = "fetching" /\ runs'[r].status = "done"

\* Every response of run r arrived and the normalizers accept each payload.
FetchedAll(r) ==
    /\ JoinReady(runs[r].res)
    /\ ~JoinRejected(runs[r].res)
    /\ ~MapThrows(runs[r].res)

\* C21: goal synchronization failure is non-fatal.  When a run that fetched
\* every response ends while the goal record of its user is missing or
\* unparsable, or while the write of the goal fails, the store holds exactly
\* the snapshot computed from the responses, loading is false, the run has
\* returned (no rejection), and the goal records are as they were.
C21_GoalFailureNonFatal ==
    [][\A r \in RunIds :
         (/\ Finishes(r)
          /\ FetchedAll(r)
          /\ activeGoal[runs[r].userId].st # "ok" \/ storageFull)
         => /\ data' = Compose(RespData(runs[r].res))
            /\ shown'.run = r
            /\ isLoading' = FALSE
            /\ runs'[r] = DoneRun
            /\ activeGoal' = activeGoal]_vars

\* A run committed a non-zero net worth while the write of the goal failed:
\* the goal still holds its old value.
C21_Witness ==
    /\ storageFull
    /\ shown.run # 0
    /\ data = lastCommit.data
    /\ data.netWorth # Raw(0)
    /\ activeGoal["A"] = Goal(Raw(0))
    /\ ~isLoading

\* C22: the category update entry points never change the snapshot from
\* their items argument.  A step of an entry point is the same step for any
\* other items; it either starts one aggregation run (the store is reset to
\* the zero snapshot) or leaves the snapshot as it is; the provider records
\* are not touched; and a run that changes the snapshot at its end commits
\* all categories computed from its responses.
C22_UpdateIgnoresItems ==
    /\ [][\A e \in EntryPoints : \A i1, i2 \in ItemArgs : update(e, i1) => update(e, i2)]_vars
    /\ [][(\E e \in EntryPoints : \E i \in ItemArgs : update(e, i)) =>
            /\ \/ started' = started + 1 /\ data' = ZeroSnapshot
               \/ started' = started /\ data' = data
            /\ backend' = backend]_vars
    /\ [][\A r \in RunIds : (Finishes(r) /\ data' # data) =>
            data' = Compose(RespData(runs[r].res))]_vars

\* An entry point started a second run after the first one committed, and the
\* second run committed too.
C22_Witness ==
    /\ mounted
    /\ started = 2
    /\ shown.run = 2
    /\ data = Compose(backend["A"])

\* C23 (as stated): an update entry point writes the given items to the
\* provider of its category before it requests the run.
C23_UpdateWritesProvider ==
    [][\A e \in EntryPoints : \A items \in ItemArgs :
         (update(e, items) /\ lastCall' = "fetch") =>
             IdsOf(items) \subseteq IdsOf(backend'[savedUser][ProviderOf(e)])]_vars

\* Run r leaves the fetching state in this step, however it ends.
Ends(r) == runs[r].status = "fetching" /\ runs'[r].status # "fetching"

\* The try block of run r throws after the await.
RunFails(r) == JoinRejected(runs[r].res) \/ MapThrows(runs[r].res)

\* The totals of snapshot d are numbers and add up.
SnapshotValid(d) ==
    /\ \A k \in DOMAIN TotalsOf(d) : ~TotalsOf(d)[k].nan
    /\ d.cash.totalCash = Add(d.cash.totalBank, d.cash.totalWallet)
    /\ d.totalAssets =
          Add(Add(Add(Add(Add(d.gold.totalValue, d.bonds.totalValue), d.stocks.totalValue),
                      d.property.totalValue),
                  d.mutualFunds.totalValue),
              d.cash.totalCash)
    /\ d.totalLiabilities = Add(d.loans.totalValue, d.creditCards.totalValue)
    /\ d.netWorth = Sub(d.totalAssets, d.totalLiabilities)

\* C24 (as stated): when a run fails after its reset-before-load, the visible
\* snapshot is the zero snapshot.
C24_FailedRunShowsZero ==
    [][\A r \in RunIds : (Ends(r) /\ RunFails(r)) => data' = ZeroSnapshot]_vars

\* C24 (amended): for every outcome of the providers (success, rejection, a
\* payload that is not a list) a run returns to its caller without rejecting
\* and with loading = false, and the visible snapshot always satisfies the
\* total invariants; a run that fails after its reset-before-load writes
\* neither the snapshot nor a goal record, so the visible snapshot is the zero
\* snapshot unless another run committed after that reset.
C24_StoreAlwaysValid ==
    /\ [](SnapshotValid(data))
    /\ [](shown.run = 0 => data = ZeroSnapshot)
    /\ [][\A r \in RunIds : Ends(r) => runs'[r] = DoneRun /\ isLoading' = FALSE]_vars
    /\ [][\A r \in RunIds : (Ends(r) /\ RunFails(r)) =>
            /\ data' = data
            /\ shown' = shown
            /\ activeGoal' = activeGoal
            /\ lastCommit' = lastCommit]_vars

\* The only run so far met an object where it expected the list of bonds: it
\* has returned, nothing is committed, the zero snapshot is shown.
C24_Witness ==
    /\ payload["bonds"] = "object"
    /\ started = 1
    /\ runs[1].status = "done"
    /\ shown.run = 0
    /\ data = ZeroSnapshot
    /\ activeGoal["A"] = Goal(Raw(0))
    /\ ~isLoading

\* C25: every run eventually ends with loading = false.  When every issued
\* request eventually settles, a run that is fetching is eventually done; the
\* step that ends a run (commit path or failure path) leaves loading false,
\* and so does a call of loadData that takes the no-identity path or the
\* parse-failure path.
C25_RunsEndNotLoading ==
    /\ \A r \in RunIds : (runs[r].status = "fetching") ~> (runs[r].status = "done")
    /\ [][\A r \in RunIds : Ends(r) => isLoading' = FALSE]_vars
    /\ [](lastCall \in {"noIdentity", "parseError"} => ~isLoading)

\* A run of A failed in the normalizer of the bonds and returned with
\* loading false, and a later call of loadData found the stored user
\* unreadable.
C25_Witness ==
    /\ payload["bonds"] = "object"
    /\ runs[1].status = "done"
    /\ shown.run = 0
    /\ lastCall = "parseError"
    /\ ~isLoading

\* C26: teardown.  At most one poll timer is active at any time (re-arming
\* clears the previous timer first); after the cleanup on unmount no timer is
\* active, so no poll tick fires any more: the monitor starts no run and
\* resets nothing, and the snapshot changes only when a run that was already
\* in flight ends.
C26_Teardown ==
    /\ [](timers \in {0, 1})
    /\ [](tornDown => timers = 0)
    /\ [][tornDown =>
            /\ ~polled => ~polled'
            /\ started' = started
            /\ currentUserId' = currentUserId
            /\ data' # data => \E r \in RunIds : Finishes(r)]_vars

\* The monitor re-armed for A and was torn down after A's run was shown; then
\* the token was removed and no tick has seen it: the store still shows A's
\* snapshot.
C26_Witness ==
    /\ tornDown
    /\ timers = 0
    /\ monitorUserId = "A"
    /\ ~token
    /\ ~polled
    /\ currentUserId = "A"
    /\ shown.run # 0

\* C27 (as stated): no request of a run is issued a second time, the HTTP
\* client included.
C27_NoRetries == \A r \in RunIds : \A p \in Providers : runs[r].retry[p] = None

\* The tables a row of table t refers to: every table is user-owned,
\* transactions and budgets refer to categories, expenses to expense
\* categories.
Parents(t) ==
    IF t = "user" THEN {}
    ELSE {"user"}
         \cup (IF t \in {"transaction", "budget"} THEN {"category"} ELSE {})
         \cup (IF t = "expense" THEN {"expenseCategory"} ELSE {})

Dependents(t) == {d \in Tables : t \in Parents(d)}

\* The create statement of table q has run: what the file holds for q (for
\* the users: those not skipped for the admin's email) is in the database.
ParentCreated(q) ==
    IF q = "user"
    THEN UsersToImport(importFile, {AdminRow}) \subseteq db["user"]
    ELSE importFile[q].rows \subseteq db[q]

\* C28: administrative bulk operations follow referential order.  A step of
\* the reset that removes rows of a table finds every table that refers to it
\* empty (transactions and budgets before categories, expenses before expense
\* categories, everything before users); a step of the import that adds rows
\* to a table comes after the create statements of the tables it refers to
\* (users first, then categories and expense categories, then the rest).
C28_ReferentialOrder ==
    /\ [][\A t \in Tables :
            (adminPc.phase = "reset" /\ db'[t] # db[t]) =>
                /\ db'[t] \subseteq db[t]
                /\ \A d \in Dependents(t) : db[d] = {}]_vars
    /\ [][\A t \in Tables :
            (adminPc.phase = "import" /\ db'[t] # db[t]) =>
                /\ db[t] \subseteq db'[t]
                /\ \A q \in Parents(t) : ParentCreated(q)]_vars

\* An importData call on a database that held a user with rows in every
\* table has returned: the old rows are gone, the imported user, category and
\* transaction are there.
C28_Witness ==
    /\ adminPc = IdlePc
    /\ adminResult.st = "ok"
    /\ adminResult.deleted["transaction"] = 1
    /\ adminResult.deleted["user"] = 1
    /\ db["user"] = {AdminRow, UserRow("u2", "u2@example.com")}
    /\ db["category"] = {Row(2, "u2")}
    /\ db["transaction"] = {Row(2, "u2")}
    /\ db["budget"] = {Row(2, "u2")}

\* C29 (as stated): the loading flag is true in every state in which at least
\* one run is in flight.
C29_LoadingWhileInFlight == ~NoRunInFlight => isLoading

\* C30 (as stated): a poll tick starts a run only when the stored identity
\* differs from the known owner (currentUserId), which the run for that
\* identity recorded before its first fetch.
C30_OneRunPerIdentityChange ==
    [][(checkUserChange /\ started' = started + 1) => savedUser # currentUserId]_vars

\* C31: goal writes are scoped to the run's identity.  A step changes the
\* goal record of user u only when it ends a run that was started for u,
\* whatever the session holds by then; the goal records of every other user
\* stay as they are, and resetNetWorth changes no goal record.
C31_GoalWriteScoped ==
    /\ [][\A u \in Users :
            activeGoal'[u] # activeGoal[u] =>
                \E r \in RunIds : Finishes(r) /\ runs[r].userId = u]_vars
    /\ [][\A r \in RunIds : Finishes(r) =>
            \A u \in Users \ {runs[r].userId} : activeGoal'[u] = activeGoal[u]]_vars
    /\ [][resetNetWorth => activeGoal' = activeGoal]_vars

\* A run started for A committed after the session had changed to B: A's
\* goal holds the new net worth, B's goal is untouched.
C31_Witness ==
    /\ savedUser = "B"
    /\ shown.run # 0
    /\ shown.user = "A"
    /\ activeGoal["A"].currentNetWorth = JsonOfNumber(data.netWorth)
    /\ activeGoal["A"] # Goal(Raw(0))
    /\ activeGoal["B"] = Goal(Raw(0))

\* Request p of run r is rejected to loadData in this step.
RejectedNow(r, p) == p \notin runs[r].failed /\ p \in runs'[r].failed

\* C32: HTTP client token refresh.  A request is issued again only when it
\* was answered with 401, had not been retried, and a refresh succeeded whose
\* access token is stored in the same step; a retried request is never
\* retried again.  A rejected request (second 401, error without response,
\* 401 without a refresh token) is rejected without a retry and leaves both
\* tokens alone, unless the refresh call failed: then both tokens are
\* removed.  The tokens are removed only by a failed refresh.
C32_RefreshAtMostOnce ==
    /\ [][\A r \in RunIds : \A p \in Providers :
            (runs'[r].status = "fetching" /\ runs'[r].retry[p] # runs[r].retry[p]) =>
                /\ runs[r].retry[p] = None
                /\ RequestUser(r, p) \notin Users
                /\ refreshToken # None
                /\ accessToken' = runs'[r].retry[p]
                /\ refreshToken' = refreshToken
                /\ p \in PendingOf(r)
                /\ runs'[r].res[p] = PendingRes]_vars
    /\ [][\A r \in RunIds : \A p \in Providers :
            RejectedNow(r, p) =>
                /\ runs'[r].retry[p] = runs[r].retry[p]
                /\ \/ accessToken' = accessToken /\ refreshToken' = refreshToken
                   \/ /\ runs[r].retry[p] = None
                      /\ RequestUser(r, p) \notin Users
                      /\ refreshToken # None
                      /\ accessToken' = None
                      /\ refreshToken' = None]_vars
    /\ [][refreshToken' # refreshToken =>
            /\ refreshToken' = None
            /\ accessToken' = None
            /\ \E r \in RunIds : \E p \in Providers : RejectedNow(r, p)]_vars

\* The gold request was retried with a token the API rejects and was rejected
\* on the second 401 while the refresh token was still stored; the bonds
\* request was retried with a good token and brought its records.
C32_Witness ==
    /\ runs[1].status = "fetching"
    /\ runs[1].retry["gold"] = Expired
    /\ "gold" \in runs[1].failed
    /\ refreshToken = "A"
    /\ runs[1].retry["bonds"] = "A"
    /\ runs[1].res["bonds"] = Fulfilled(backend["A"]["bonds"])

\* The rows of a service's table that a step removes or replaces, and the rows
\* it adds or writes.
RowsLost(svc) == crud[svc] \ crud'[svc]
RowsWritten(svc) == crud'[svc] \ crud[svc]

\* C33: in the expenses and stock assets services, update and delete called
\* with a userId that owns no record of the given id finish with a not-found
\* error and leave the tables unchanged; findAll and findOne return only
\* records of the caller; every record a call removes, replaces or writes
\* belongs to the caller of that call.
C33_RecordOwnership ==
    [][ /\ \A svc \in Services :
              \A row \in RowsLost(svc) \cup RowsWritten(svc) :
                   /\ crudResult'.st = "ok"
                   /\ crudResult'.svc = svc
                   /\ crudResult'.caller = row.userId
        /\ (crudResult' # crudResult) =>
              /\ crudResult'.op \in {"findAll", "findOne"} =>
                    /\ crudResult'.rows \subseteq crud[crudResult'.svc]
                    /\ \A row \in crudResult'.rows : row.userId = crudResult'.caller
                    /\ crud' = crud
              /\ ( /\ crudResult'.op \in {"update", "delete"}
                   /\ ~\E row \in crud[crudResult'.svc] :
                          row.id = crudResult'.id /\ row.userId = crudResult'.caller ) =>
                    /\ crudResult'.st = "error"
                    /\ crudResult'.error \in {NotFoundError(crudResult'.svc), PrismaNotFound}
                    /\ crud' = crud
      ]_vars

\* B's delete of A's expense was refused, and A's expense is still there
\* beside a record of B's own.
C33_Witness ==
    /\ crudResult.op = "delete"
    /\ crudResult.caller = "B"
    /\ crudResult.st = "error"
    /\ crudResult.error = NotFoundError(crudResult.svc)
    /\ \E row \in crud[crudResult.svc] : row.id = crudResult.id /\ row.userId = "A"
    /\ \E row \in crud[crudResult.svc] : row.userId = "B"

\* resetDatabase, called directly or by importData, throws in this step.
ResetThrows == adminPc.phase = "reset" /\ adminResult'.st = "error"

\* resetDatabase, called directly or by importData, ends in this step without
\* an error.
ResetCompletes ==
    adminPc.phase = "reset" /\ adminPc'.phase # "reset" /\ adminResult'.st # "error"

\* C34: resetDatabase throws exactly when no user has the admin's email, does
\* so before its first delete statement and leaves every table as it was;
\* when it completes, the users table holds the admin user alone, every other
\* table is empty, and the reported count of deleted users is the number of
\* users removed, the admin not among them.
C34_ResetPreservesAdmin ==
    [][ /\ (adminPc.phase = "reset" /\ adminPc.step = 0) =>
              (ResetThrows <=> FindAdmin(db["user"]) = {})
        /\ ResetThrows =>
              /\ adminPc.step = 0
              /\ db' = db
              /\ adminPc' = IdlePc
        /\ ResetCompletes =>
              /\ db'["user"] = FindAdmin(db["user"])
              /\ Cardinality(db'["user"]) = 1
              /\ \A t \in Tables \ {"user"} : db'[t] = {}
              /\ adminResult'.deleted["user"] = Cardinality(db["user"] \ db'["user"])
        /\ (adminPc.phase = "reset" /\ adminPc.step > 0) =>
              /\ db'["user"] \subseteq db["user"]
              /\ FindAdmin(db'["user"]) = FindAdmin(db["user"])
              /\ FindAdmin(db["user"]) # {}
      ]_vars

\* resetDatabase() has returned: one user and one row of every table were
\* there, the admin alone is left and one deleted user is reported.
C34_Witness ==
    /\ adminPc = IdlePc
    /\ adminResult.st = "ok"
    /\ adminResult.deleted["user"] = 1
    /\ adminResult.deleted["goal"] = 1
    /\ db["user"] = {AdminRow}
    /\ \A t \in Tables \ {"user"} : db[t] = {}
    /\ \A t \in Tables : ~importFile[t].present

C36_PreferenceKeyIsSessionIdentity ==
    [][\A u \in Users : preferredCurrency'[u] # preferredCurrency[u] => u = savedUser]_vars

\* C36, second half: a tick that finds an identity other than the one its
\* closure holds makes that identity the provider's and activates its saved
\* preference if it is a code of CURRENCIES, the default otherwise.
C36_DetectedChangeLoadsPreference ==
    [][(currencyMounted /\ savedUser # None /\ currencyUserId' # currencyUserId
           /\ currencyUserId' = savedUser /\ currencyMounted')
          => currency' = PreferenceOf(savedUser)]_vars

====
